---- MODULE Spec2Model ----
(***************************************************************************)
(* SHOPNET Deals mobile client: the data-loading screens (Discover,        *)
(* PromoProducts, AllShops, ShopDetail), their cache envelopes and         *)
(* paginators, and the local favorites ledger shared through AsyncStorage. *)
(*                                                                         *)
(* Every async handler is cut at its awaits: the part of a handler that    *)
(* runs between two awaits is one action.  A handler reads the React state *)
(* of the render that created it, so a value read after an await is the    *)
(* value captured when the handler started (stale closure).                *)
(***************************************************************************)
EXTENDS Integers, Sequences, FiniteSets, Bags, TLC

\* ---------------------------------------------------------------- bounds
NumIds == 2            \* product / shop identifiers are 1..NumIds
MaxResp == 2           \* longest list a backend response carries
MaxPage == 2           \* highest page number a load-more may request
MaxInFlight == 2       \* async tasks of one screen in flight together
MinAge == 4            \* youngest cache envelope at start, in minutes
MaxAge == 5            \* oldest cache envelope at start, in minutes
MaxTicks == 1          \* minutes the clock advances during a run
MaxTaps == 3           \* user gestures (pull, scroll to end, tap, typing) in a run
MaxFavs == 3           \* longest persisted favorites list
\* page size of the feed (source: 10 on Discover, 5 on PromoProducts and
\* AllShops), scaled so that a list of MaxResp items is actually sliced
ITEMS_PER_PAGE == 1
\* longest search history kept (source: 10), scaled so that a run of
\* MaxTaps searches overflows it
MaxHistory == 2
MaxSearches == 3       \* handlers of the search screen in flight together

\* ------------------------------------------------------- program constants
MINUTE == 60 * 1000
CACHE_EXPIRY == 5 * 60 * 1000

Ids == 1..NumIds
Categories == {1}
NoCategory == 0

VARIABLES
  screen,            \* the screen this run is about
  now,               \* Date.now(), milliseconds
  cache,             \* the envelope persisted under the screen's CACHE_KEY
  all,               \* allProducts / allShops / products
  feed,              \* feedProducts / displayedProducts / displayedShops
  page, hasMore, totalPages,
  loading, loadingMore, refreshing,
  selectedCategory,  \* Discover
  refreshCat,        \* selectedCategory captured by the memoized onRefresh
  isCacheLoaded,     \* Discover
  userLocation,      \* "none" | "device" | "default"
  searchQuery,       \* PromoProducts / AllShops local filter: "" or "q"
  boutique,          \* ShopDetail: the shop header has been loaded
  pc,                \* the mount effect: "mount" | "running" | "done"
  mountIssued,       \* history: the mount effect has issued its request
  inflight,          \* async tasks awaiting the network or the location
  taps,              \* history: user gestures so far
  last,              \* history: what the last step did
  favStore,          \* the list persisted under '@shopnet_favorites' (ids)
  favTasks,          \* favorites handlers suspended at a storage await
  liked,             \* Discover: the ids whose isLiked flag is true
  favoritesCount,    \* Discover: the badge on the favorites button
  pdProduct,         \* ProductDetail: the product shown, 0 before it loads
  pdIsFavorite,      \* ProductDetail: isFavorite
  fsFavorites,       \* FavorisScreen: favorites
  rt,                \* a caller running add / contains / remove / contains
  searchHistory,     \* RechercheAvancee: searchHistory
  historyStore,      \* the list persisted under 'shopnet_search_history_white'
  isSearching,       \* RechercheAvancee: isSearching
  searchLoading,     \* RechercheAvancee: loading
  searchError,       \* RechercheAvancee: error is set
  searchTasks,       \* RechercheAvancee handlers suspended at an await
  lastSave,          \* history: the last saveSearchHistory that ran
  results,           \* RechercheAvancee: page, hasMore, products, shops
  sections,          \* Discover: nearby shops and trending products
  scan               \* Discover: a fetch computing the isLiked flags of its products

screenVars == <<screen, now, cache, all, feed, page, hasMore, totalPages,
                loading, loadingMore, refreshing, selectedCategory,
                refreshCat, isCacheLoaded, userLocation, searchQuery, boutique, pc,
                mountIssued, inflight, last, sections>>

favVars == <<favStore, favTasks, liked, favoritesCount, pdProduct,
             pdIsFavorite, fsFavorites, rt>>

searchVars == <<searchHistory, historyStore, isSearching, searchLoading,
                searchError, searchTasks, lastSave, results>>

vars == <<screenVars, favVars, searchVars, scan, taps>>

\* ------------------------------------------------------------ data helpers
Min(a, b) == IF a < b THEN a ELSE b

Range(s) == {s[i] : i \in DOMAIN s}

NoDup(s) == \A i, j \in DOMAIN s : i # j => s[i] # s[j]

\* slice(0, n) that keeps the whole array
Slice_whole(s, n) == s

\* Array.prototype.slice(0, n)
Slice(s, n) == SubSeq(s, 1, Min(n, Len(s)))

\* what a backend page can carry: up to MaxResp distinct items in any order
ProductLists ==
  {s \in UNION {[1..n -> Ids] : n \in 0..MaxResp} : NoDup(s)}

\* shuffleArray: any permutation of the array
shuffleArray(s) ==
  {t \in [1..Len(s) -> Range(s)] : Range(t) = Range(s) /\ Len(t) = Len(s)}

\* the backend flags of a raw product: isPromotion || is_boosted
IsPromo(i) == i # NumIds

\* title.toLowerCase().includes(query) for the one non-blank query "q"
Matches(i) == i = 1

\* ---------------------------------------------------------- cache envelope
NoCache == [kind |-> "none", timestamp |-> 0, data |-> <<>>]
Garbage == [kind |-> "garbage", timestamp |-> 0, data |-> <<>>]
Envelope(t, d) == [kind |-> "envelope", timestamp |-> t, data |-> d]

\* loadCache: the payload, or "null" when there is no usable envelope
Null == [hit |-> FALSE, data |-> <<>>]

\* loadCache with the expiry test made inclusive
loadCache_inclusive(c, t) ==
  IF c.kind = "envelope" /\ t - c.timestamp <= CACHE_EXPIRY
  THEN [hit |-> TRUE, data |-> c.data]
  ELSE Null

loadCache(c, t) ==
  IF c.kind = "envelope"                      \* getItem found a string
  THEN IF t - c.timestamp < CACHE_EXPIRY      \* JSON.parse succeeded
       THEN [hit |-> TRUE, data |-> c.data]
       ELSE Null
  ELSE Null                                   \* missing, or parse threw

\* saveCache persisting the displayed slice instead of the full list
saveCache_displayed(d, t) == Envelope(t, Slice(d, ITEMS_PER_PAGE))

\* saveCache: the envelope written at time t (AsyncStorage is taken to
\* accept the write; a rejected setItem is logged and changes nothing)
saveCache(d, t) == Envelope(t, d)

\* ------------------------------------------------------------ async tasks
\* the handlers suspended at an await on the location service ("loc") or on
\* the network ("fetch"), as a bag: they can settle in any order
\* a handler that asks for the page after the one it was called for
Task_nextPage(t, k, p, sl) ==
  [task |-> t, kind |-> k, page |-> p + 1, showLoading |-> sl,
   cat |-> NoCategory]

\* `cat` is the category parameter its request carries
Task(t, k, p, sl) ==
  [task |-> t, kind |-> k, page |-> p, showLoading |-> sl, cat |-> NoCategory]

\* params.append('category', c)
ForCategory(t, c) == [t EXCEPT !.cat = c]

Tasks == BagToSet(inflight)
CanStart == BagCardinality(inflight) < MaxInFlight
Start(t) == inflight (+) SetToBag({t})
Finish(t) == inflight (-) SetToBag({t})
Replace(t, u) == (inflight (-) SetToBag({t})) (+) SetToBag({u})

\* what the network can answer: fetch() rejects, response.json() rejects,
\* a body without success = true, or a success body.  totalPages = 0 stands
\* for a body that carries no totalPages.
Failures == {"exception", "malformed", "nosuccess"}
Responses ==
  [out : Failures, products : {<<>>}, totalPages : {0}]
    \cup [out : {"ok"}, products : ProductLists, totalPages : 0..MaxPage]

\* what the location service can answer
LocationOutcomes == {"granted", "denied", "error"}

\* a loader that keeps no coordinates when the permission is refused
location_deviceOnly(status) == IF status = "granted" THEN "device" ELSE "none"

\* the coordinates the loader goes on with: the device's when the permission
\* is granted and the position obtained, { -11.664, 27.479 } otherwise
location(status) == IF status = "granted" THEN "device" ELSE "default"

\* history: the last step.  `page`, `cat` and `loc` are the parameters of the
\* request the step has sent, `products` and `totalPages` the answer it has
\* handled.
Event(a, k, o) == [act |-> a, kind |-> k, out |-> o, products |-> <<>>,
                   totalPages |-> 0, page |-> 0, cat |-> 0, loc |-> "none"]
Request(k, p, c, l) == [Event("request", k, "none") EXCEPT
                          !.page = p, !.cat = c, !.loc = l]
Response(k, r, ps, p) == [Event("response", k, r.out) EXCEPT
                            !.products = ps, !.totalPages = r.totalPages,
                            !.page = p]
NoEvent == Event("init", "none", "none")

\* ------------------------------------------------------------------ screens
Screens == {"discover", "discover1", "promo", "shops", "shopdetail"}
CacheBacked == {"discover", "promo", "shops"}

\* the payloads saveCache can have written for a screen
Payloads(sc) ==
  IF sc = "promo" THEN {d \in ProductLists : \A i \in Range(d) : IsPromo(i)}
  ELSE ProductLists

InitCaches(sc) ==
  IF sc \in CacheBacked
  THEN {NoCache, Garbage}
         \cup {Envelope((MaxAge - a) * MINUTE, d) :
                 a \in MinAge..MaxAge, d \in Payloads(sc)}
  ELSE {NoCache}

\* the state after the first render and its synchronous effects.  On
\* PromoProducts and AllShops the search effect has already run on the empty
\* list: applyPagination([], 1) leaves hasMore = (ITEMS_PER_PAGE < 0).
\* Discover before its mount effect: shops [] and trendingProducts [] on
\* screen and in the closure of the memoized onRefresh; no refresh started.
\* A list of shops (or of trending products) is represented by a number, 0
\* for the empty list.
NoSections == [shops |-> 0, trending |-> 0, memoShops |-> 0,
               memoTrending |-> 0, round |-> "none", done |-> {}]

InitScreens ==
  /\ screen \in Screens
  /\ now = MaxAge * MINUTE
  /\ cache \in InitCaches(screen)
  /\ all = <<>>
  /\ feed = <<>>
  /\ page = 1
  /\ hasMore = (screen \notin {"promo", "shops"})
  /\ totalPages = 1
  /\ loading = TRUE
  /\ loadingMore = FALSE
  /\ refreshing = FALSE
  /\ selectedCategory = NoCategory
  /\ refreshCat = NoCategory
  /\ isCacheLoaded = FALSE
  /\ userLocation = "none"
  /\ searchQuery = ""
  /\ boutique = FALSE
  /\ pc = "mount"
  /\ mountIssued = FALSE
  /\ inflight = EmptyBag
  /\ taps = 0
  /\ last = NoEvent
  /\ sections = NoSections

\* the favorites ledger at rest: nothing stored, nobody using it
NoCaller == [pc |-> "idle", p |-> 0, favs |-> <<>>, start |-> <<>>,
             mid |-> <<>>, wrote |-> FALSE,
             r1 |-> FALSE, r2 |-> FALSE, err |-> FALSE]
InitFavIdle ==
  /\ favStore = <<>>
  /\ favTasks = EmptyBag
  /\ liked = {}
  /\ favoritesCount = 0
  /\ pdProduct = 0
  /\ pdIsFavorite = FALSE
  /\ fsFavorites = <<>>
  /\ rt = NoCaller

\* RechercheAvancee before any search: page 1, hasMore true, no products,
\* no shops.  `products` lists the result pages it holds, in order.
NoResults == [page |-> 1, hasMore |-> TRUE, products |-> <<>>,
              shops |-> FALSE]

\* the key 'shopnet_search_history_white': absent, or a list
NoHistory == [present |-> FALSE, list |-> <<>>]
Stored(h) == [present |-> TRUE, list |-> h]

\* history: no saveSearchHistory has run in the last step
NoSave == [act |-> "none", query |-> <<>>, before |-> <<>>, ok |-> TRUE]
Saved(q, h, ok) == [act |-> "saved", query |-> q, before |-> h, ok |-> ok]

\* no fetch of Discover is between its response and its setAllProducts
NoScan == [pc |-> "idle", kind |-> "none", products |-> <<>>, k |-> 0,
           snap |-> <<>>, flags |-> {}, member |-> {}, failed |-> {},
           placed |-> {}, sent |-> {}]

\* the search screen at rest: never opened, nothing stored
SearchIdle ==
  /\ searchHistory = <<>>
  /\ historyStore = NoHistory
  /\ isSearching = FALSE
  /\ searchLoading = FALSE
  /\ searchError = FALSE
  /\ searchTasks = EmptyBag
  /\ lastSave = NoSave
  /\ results = NoResults

Init == InitScreens /\ InitFavIdle /\ SearchIdle /\ scan = NoScan

\* the value isCacheLoaded has in the closure of the first render, the one
\* the mount effect and the first onRefresh run in
FirstRenderIsCacheLoaded == FALSE

\* a loader that could run again at any time
MountPending_anytime == TRUE

\* useEffect(..., []): the loader runs once, when the screen is mounted
MountPending == pc = "mount"

\* the list (with its pull-to-refresh, list-end and retry controls) is on
\* screen, not the full-screen loading view
ListVisible ==
  CASE screen = "discover" -> ~(loading /\ ~isCacheLoaded)
    [] screen = "discover1" -> ~(loading /\ Len(all) = 0)
    [] screen = "shopdetail" -> ~(loading /\ ~boutique)
    [] OTHER -> ~loading

\* ---------------------------------------- PromoProducts / AllShops helpers
\* applyPagination(products, pageNum): the displayed slice and hasMore
applyPagination(products, pageNum) ==
  [shown |-> Slice(products, pageNum * ITEMS_PER_PAGE),
   more |-> pageNum * ITEMS_PER_PAGE < Len(products)]

\* a search effect that shows the first slice without setPage(1)
SearchEffect_keepPage(q, products, pg) ==
  IF q = ""
  THEN [shown |-> applyPagination(products, 1).shown,
        more |-> applyPagination(products, 1).more, page |-> pg]
  ELSE [shown |-> SelectSeq(products, Matches), more |-> FALSE, page |-> pg]

\* the search effect, run whenever searchQuery or the full list changes:
\* what it leaves in displayed list, hasMore and page
SearchEffect(q, products, pg) ==
  IF q = ""
  THEN [shown |-> applyPagination(products, 1).shown,
        more |-> applyPagination(products, 1).more, page |-> 1]
  ELSE [shown |-> SelectSeq(products, Matches), more |-> FALSE, page |-> pg]

\* a user gesture: the run has room for one more.  Discover, with its three
\* kinds of request, gets one gesture less than the other screens.
Budget == IF screen = "discover" THEN MaxTaps - 1 ELSE MaxTaps
Tap == taps < Budget /\ taps' = taps + 1

\* ------------------------------------------------------------------- clock
Tick ==
  /\ now < (MaxAge + MaxTicks) * MINUTE
  /\ now' = now + MINUTE
  /\ last' = Event("tick", "none", "none")
  /\ UNCHANGED <<favVars, searchVars, scan, sections>> /\ UNCHANGED <<taps, screen, cache, all, feed, page, hasMore, totalPages, loading,
                 loadingMore, refreshing, selectedCategory, refreshCat,
                 isCacheLoaded, userLocation, searchQuery, boutique, pc,
                 mountIssued, inflight>>

\* ============================================================== Discover
\* (src/app/Favoris.tsx, DiscoverScreen)

\* loadInitialData, after `await loadCache()`: render the cached payload,
\* then call requestLocationAndFetchData, which runs up to its first await
loadInitialData ==
  /\ screen = "discover"
  /\ MountPending
  /\ LET cached == loadCache(cache, now) IN
     /\ all' = IF cached.hit THEN cached.data ELSE all
     /\ feed' = IF cached.hit THEN Slice(cached.data, ITEMS_PER_PAGE) ELSE feed
     /\ isCacheLoaded' = (cached.hit \/ isCacheLoaded)
     \* setLoading(false) on a hit, then `if (!isCacheLoaded) setLoading(true)`
     \* with the isCacheLoaded of the first render
     /\ loading' = IF ~FirstRenderIsCacheLoaded THEN TRUE
                   ELSE IF cached.hit THEN FALSE ELSE loading
     /\ last' = [Event("loadCache", "init",
                             IF cached.hit THEN "hit" ELSE "miss")
                       EXCEPT !.products = cached.data]
  /\ inflight' = Start(Task("loc", "init", 0, FALSE))
  /\ pc' = "running"
  /\ UNCHANGED <<favVars, searchVars, scan, sections>> /\ UNCHANGED <<taps, screen, now, cache, page, hasMore, totalPages, loadingMore,
                 refreshing, selectedCategory, refreshCat, userLocation,
                 searchQuery, boutique, mountIssued>>

\* requestLocationAndFetchData, after the location awaits.  The task was
\* started by the mount effect (kind "init") or by an onRefresh that found
\* no userLocation (kind "refreshLoc"); both run in the first render's
\* closure, whose selectedCategory is null.
requestLocationAndFetchData(t, o) ==
  /\ screen = "discover"
  /\ t.task = "loc"
  /\ IF o = "error"
     THEN \* catch: log; finally: setLoading(false); onRefresh then ends
          /\ loading' = FALSE
          /\ refreshing' = IF t.kind = "refreshLoc" THEN FALSE
                           ELSE refreshing
          /\ inflight' = Finish(t)
          /\ pc' = IF t.kind = "init" THEN "done" ELSE pc
          /\ UNCHANGED <<userLocation, refreshCat, mountIssued>>
     ELSE /\ userLocation' = location(o)
          \* onRefresh is memoized anew: it captures this render's state
          /\ refreshCat' = selectedCategory
          /\ inflight' = Replace(t, Task("fetch", t.kind, 1, FALSE))
          /\ mountIssued' = (mountIssued \/ t.kind = "init")
          /\ UNCHANGED <<loading, refreshing, pc>>
  /\ last' = IF o = "error" THEN Event("location", t.kind, o)
             ELSE [Request(t.kind, 1, NoCategory, userLocation')
                     EXCEPT !.act = "location", !.out = o]
  /\ UNCHANGED <<favVars, searchVars, scan, sections>> /\ UNCHANGED <<taps, screen, now, cache, all, feed, page, hasMore, totalPages,
                 loadingMore, selectedCategory, isCacheLoaded, searchQuery,
                 boutique>>

\* hasMore that counts the page just fetched as still to come
hasMoreAfter_inclusive(pageNum, tp) == pageNum <= (IF tp = 0 THEN 1 ELSE tp)

\* setHasMore(pageNum < (data.totalPages || 1))
hasMoreAfter(pageNum, tp) == pageNum < (IF tp = 0 THEN 1 ELSE tp)

\* a load-more that asks for the current page again
NextPage_same(p) == p

\* the page a load-more asks for: page + 1
NextPage(p) == p + 1

\* the items of `products` whose id is not yet in `prev`, appended to prev
AppendNew(prev, products) ==
  prev \o SelectSeq(products, LAMBDA i : i \notin Range(prev))

\* fetchProducts(pageNum, shouldShuffle), from the response on, followed by
\* what its caller does when the promise settles
fetchProducts(t, r) ==
  /\ screen = "discover"
  /\ t.task = "fetch"
  /\ t.kind \in {"init", "refreshLoc", "refresh", "more", "filterSame"}
  /\ \E products \in (IF t.kind = "more" \/ r.out # "ok"
                       THEN {r.products} ELSE shuffleArray(r.products)) :
     LET pageNum == t.page
         kind == t.kind IN
     /\ IF r.out = "ok"
        THEN /\ IF pageNum = 1
                THEN /\ all' = products
                     /\ feed' = Slice(products, ITEMS_PER_PAGE)
                     /\ cache' = saveCache(products, now)
                ELSE /\ all' = AppendNew(all, products)
                     /\ feed' = AppendNew(feed, products)
                     /\ cache' = cache
             /\ page' = pageNum
             /\ hasMore' = hasMoreAfter(pageNum, r.totalPages)
        ELSE UNCHANGED <<all, feed, cache, page, hasMore>>
     /\ loading' = IF kind \in {"init", "refreshLoc", "filterSame"} THEN FALSE
                   ELSE loading
     /\ refreshing' = IF kind \in {"refresh", "refreshLoc"} THEN FALSE
                      ELSE refreshing
     /\ loadingMore' = IF kind = "more" THEN FALSE ELSE loadingMore
     /\ pc' = IF kind = "init" THEN "done" ELSE pc
     /\ last' = Response(kind, r, products, pageNum)
  /\ inflight' = Finish(t)
  /\ UNCHANGED <<favVars, searchVars, scan, sections>> /\ UNCHANGED <<taps, screen, now, totalPages, selectedCategory, refreshCat,
                 isCacheLoaded, userLocation, searchQuery, boutique,
                 mountIssued>>

\* loadMoreProducts: the list-end event
loadMoreProducts ==
  /\ screen = "discover"
  /\ ListVisible
  /\ Tap
  /\ ~loadingMore /\ hasMore
  /\ NextPage(page) <= MaxPage
  /\ CanStart
  /\ loadingMore' = TRUE
  /\ inflight' = Start(ForCategory(Task("fetch", "more", NextPage(page),
                                         FALSE), selectedCategory))
  /\ last' = Request("more", NextPage(page), selectedCategory, "none")
  /\ UNCHANGED <<favVars, searchVars, scan, sections>> /\ UNCHANGED <<screen, now, cache, all, feed, page, hasMore, totalPages,
                 loading, refreshing, selectedCategory, refreshCat,
                 isCacheLoaded, userLocation, searchQuery, boutique, pc,
                 mountIssued>>

\* onRefresh: pull-to-refresh or the retry button of the empty list
onRefresh ==
  /\ screen = "discover"
  /\ ListVisible
  /\ Tap
  /\ CanStart
  /\ refreshing' = TRUE
  /\ selectedCategory' = NoCategory
  /\ IF userLocation # "none"
     THEN \* fetchProducts of the render that memoized onRefresh
          /\ inflight' = Start(ForCategory(Task("fetch", "refresh", 1, FALSE),
                                         refreshCat))
          /\ last' = Request("refresh", 1, refreshCat, userLocation)
          /\ UNCHANGED loading
     ELSE \* requestLocationAndFetchData, up to its first await
          /\ loading' = IF ~FirstRenderIsCacheLoaded THEN TRUE ELSE loading
          /\ inflight' = Start(Task("loc", "refreshLoc", 0, FALSE))
          /\ last' = Event("locate", "refreshLoc", "none")
  /\ UNCHANGED <<favVars, searchVars, scan, sections>> /\ UNCHANGED <<screen, now, cache, all, feed, page, hasMore, totalPages,
                 loadingMore, refreshCat, isCacheLoaded, userLocation,
                 searchQuery, boutique, pc, mountIssued>>

\* filterByCategory(categoryName): a tap on a category chip.  Tapping the
\* selected category calls fetchProducts of the current render, which still
\* sees that category; tapping another one fetches inline.
filterByCategory(c) ==
  /\ screen = "discover"
  /\ ListVisible
  /\ Tap
  /\ CanStart
  /\ IF selectedCategory = c
     THEN /\ selectedCategory' = NoCategory
          /\ inflight' = Start(ForCategory(Task("fetch", "filterSame", 1,
                                              FALSE), selectedCategory))
          /\ last' = Request("filterSame", 1, selectedCategory, "none")
     ELSE /\ selectedCategory' = c
          /\ inflight' = Start(ForCategory(Task("fetch", "filterOther", 1,
                                              FALSE), c))
          /\ last' = Request("filterOther", 1, c, "none")
  /\ loading' = TRUE
  /\ UNCHANGED <<favVars, searchVars, scan, sections>> /\ UNCHANGED <<screen, now, cache, all, feed, page, hasMore, totalPages,
                 loadingMore, refreshing, refreshCat, isCacheLoaded,
                 userLocation, searchQuery, boutique, pc, mountIssued>>

\* filterByCategory, from the response of its inline fetch on
filterByCategoryDone(t, r) ==
  /\ screen = "discover"
  /\ t.task = "fetch"
  /\ t.kind = "filterOther"
  /\ IF r.out = "ok"
     THEN /\ all' = r.products
          /\ feed' = Slice(r.products, ITEMS_PER_PAGE)
          /\ page' = 1
          /\ hasMore' = (r.totalPages > 1)
     ELSE UNCHANGED <<all, feed, page, hasMore>>
  /\ loading' = FALSE
  /\ inflight' = Finish(t)
  /\ last' = Response("filterOther", r, r.products, 1)
  /\ UNCHANGED <<favVars, searchVars, scan, sections>> /\ UNCHANGED <<taps, screen, now, cache, totalPages, loadingMore, refreshing,
                 selectedCategory, refreshCat, isCacheLoaded, userLocation,
                 searchQuery, boutique, pc, mountIssued>>

\* ===================================== Discover, version without a cache
\* (src/unnamed/part_001, DiscoverScreen)

\* the mount effect: fetchInitialProducts up to its fetch
fetchInitialProducts ==
  /\ screen = "discover1"
  /\ MountPending
  /\ loading' = TRUE
  /\ inflight' = Start(Task("fetch", "init", 1, FALSE))
  /\ pc' = "running"
  /\ mountIssued' = TRUE
  /\ last' = Request("init", 1, NoCategory, "none")
  /\ UNCHANGED <<favVars, searchVars, scan, sections>> /\ UNCHANGED <<taps, screen, now, cache, all, feed, page, hasMore, totalPages,
                 loadingMore, refreshing, selectedCategory, refreshCat,
                 isCacheLoaded, userLocation, searchQuery, boutique>>

loadMoreProducts1 ==
  /\ screen = "discover1"
  /\ ListVisible
  /\ Tap
  /\ ~(loadingMore \/ ~hasMore)
  /\ page + 1 <= MaxPage
  /\ CanStart
  /\ loadingMore' = TRUE
  /\ inflight' = Start(Task("fetch", "more", page + 1, FALSE))
  /\ last' = Request("more", page + 1, NoCategory, "none")
  /\ UNCHANGED <<favVars, searchVars, scan, sections>> /\ UNCHANGED <<screen, now, cache, all, feed, page, hasMore, totalPages,
                 loading, refreshing, selectedCategory, refreshCat,
                 isCacheLoaded, userLocation, searchQuery, boutique, pc,
                 mountIssued>>

onRefresh1 ==
  /\ screen = "discover1"
  /\ ListVisible
  /\ Tap
  /\ CanStart
  /\ refreshing' = TRUE
  /\ inflight' = Start(Task("fetch", "refresh", 1, FALSE))
  /\ last' = Request("refresh", 1, NoCategory, "none")
  /\ UNCHANGED <<favVars, searchVars, scan, sections>> /\ UNCHANGED <<screen, now, cache, all, feed, page, hasMore, totalPages,
                 loading, loadingMore, selectedCategory, refreshCat,
                 isCacheLoaded, userLocation, searchQuery, boutique, pc,
                 mountIssued>>

\* fetchInitialProducts / loadMoreProducts / onRefresh from the response on
fetchDone1(t, r) ==
  /\ screen = "discover1"
  /\ t.task = "fetch"
  /\ \E products \in (IF t.kind = "refresh" /\ r.out = "ok"
                       THEN shuffleArray(r.products) ELSE {r.products}) :
     LET kind == t.kind
         nextPage == t.page IN
     /\ IF r.out = "ok"
        THEN /\ all' = IF kind = "more" THEN all \o products ELSE products
             /\ feed' = IF kind = "more" THEN feed \o products
                        ELSE Slice(products, ITEMS_PER_PAGE)
             /\ page' = nextPage
             /\ hasMore' = (r.totalPages > nextPage)
        ELSE UNCHANGED <<all, feed, page, hasMore>>
     /\ loading' = IF kind = "init" THEN FALSE ELSE loading
     /\ loadingMore' = IF kind = "more" THEN FALSE ELSE loadingMore
     /\ refreshing' = IF kind = "refresh" THEN FALSE ELSE refreshing
     /\ pc' = IF kind = "init" THEN "done" ELSE pc
     /\ last' = Response(kind, r, products, nextPage)
  /\ inflight' = Finish(t)
  /\ UNCHANGED <<favVars, searchVars, scan, sections>> /\ UNCHANGED <<taps, screen, now, cache, totalPages, selectedCategory, refreshCat,
                 isCacheLoaded, userLocation, searchQuery, boutique,
                 mountIssued>>

\* =============================================== PromoProducts / AllShops
\* (src/app/PromoProducts.tsx, src/unnamed/part_003)

\* loadData, after `await loadCache()`.  PromoProducts goes on to
\* fetchPromoProducts(!cached); AllShops first awaits the location.
loadData ==
  /\ screen \in {"promo", "shops"}
  /\ MountPending
  /\ LET cached == loadCache(cache, now)
         eff == SearchEffect(searchQuery, cached.data, page) IN
     /\ all' = IF cached.hit THEN cached.data ELSE all
     /\ feed' = IF cached.hit THEN eff.shown ELSE feed
     /\ hasMore' = IF cached.hit THEN eff.more ELSE hasMore
     /\ page' = IF cached.hit THEN eff.page ELSE page
     /\ IF screen = "promo"
        THEN \* fetchPromoProducts(!cached): if (showLoading) setLoading(true)
             /\ loading' = IF cached.hit THEN FALSE ELSE TRUE
             /\ inflight' = Start(Task("fetch", "init", 1, ~cached.hit))
             /\ mountIssued' = TRUE
        ELSE /\ loading' = IF cached.hit THEN FALSE ELSE loading
             /\ inflight' = Start(Task("loc", "init", 0, ~cached.hit))
             /\ UNCHANGED mountIssued
     /\ last' = [Event("loadCache", "init",
                             IF cached.hit THEN "hit" ELSE "miss")
                       EXCEPT !.products = cached.data]
  /\ pc' = "running"
  /\ UNCHANGED <<favVars, searchVars, scan, sections>> /\ UNCHANGED <<taps, screen, now, cache, totalPages, loadingMore, refreshing,
                 selectedCategory, refreshCat, isCacheLoaded, userLocation,
                 searchQuery, boutique>>

\* AllShops loadData, after the location awaits (no try/catch around them:
\* a rejected location call ends the effect), up to the fetch of fetchShops
loadDataLocation(t, o) ==
  /\ screen = "shops"
  /\ t.task = "loc"
  /\ IF o = "error"
     THEN /\ inflight' = Finish(t)
          /\ pc' = "done"
          /\ UNCHANGED <<userLocation, loading, mountIssued>>
     ELSE /\ userLocation' = location(o)
          /\ loading' = IF t.showLoading THEN TRUE ELSE loading
          /\ inflight' = Replace(t, Task("fetch", "init", 1, t.showLoading))
          /\ mountIssued' = TRUE
          /\ UNCHANGED pc
  /\ last' = IF o = "error" THEN Event("location", "init", o)
             ELSE [Request("init", 1, NoCategory, userLocation')
                     EXCEPT !.act = "location", !.out = o]
  /\ UNCHANGED <<favVars, searchVars, scan, sections>> /\ UNCHANGED <<taps, screen, now, cache, all, feed, page, hasMore, totalPages,
                 loadingMore, refreshing, selectedCategory, refreshCat,
                 isCacheLoaded, searchQuery, boutique>>

\* fetchPromoProducts / fetchShops, from the response on, and the search
\* effect that runs when the full list has changed
fetchPromoProducts(t, r) ==
  /\ screen \in {"promo", "shops"}
  /\ t.task = "fetch"
  /\ LET promos == IF screen = "promo" THEN SelectSeq(r.products, IsPromo)
                   ELSE r.products
         newAll == IF r.out = "ok" THEN promos
                   ELSE IF r.out = "nosuccess" THEN <<>> ELSE all
         eff == SearchEffect(searchQuery, newAll, page) IN
     /\ all' = newAll
     /\ IF r.out \in {"ok", "nosuccess"}
        THEN \* "ok": applyPagination(promos, 1); else: the lists are cleared
             \* and hasMore = false.  Either way the full list is a new
             \* array, so the search effect runs and has the last word.
             /\ feed' = eff.shown
             /\ hasMore' = eff.more
             /\ page' = eff.page
        ELSE UNCHANGED <<feed, hasMore, page>>
     /\ cache' = IF r.out = "ok" THEN saveCache(promos, now) ELSE cache
     /\ last' = Response(t.kind, r, IF r.out = "ok" THEN promos ELSE <<>>, 1)
  /\ loading' = FALSE
  /\ refreshing' = FALSE
  /\ pc' = IF t.kind = "init" THEN "done" ELSE pc
  /\ inflight' = Finish(t)
  /\ UNCHANGED <<favVars, searchVars, scan, sections>> /\ UNCHANGED <<taps, screen, now, totalPages, loadingMore, selectedCategory,
                 refreshCat, isCacheLoaded, userLocation, searchQuery,
                 boutique, mountIssued>>

\* loadMore: show one more slice of the list already in memory
loadMore ==
  /\ screen \in {"promo", "shops"}
  /\ ListVisible
  /\ Tap
  /\ ~(loadingMore \/ ~hasMore)
  /\ LET nextPage == page + 1 IN
     /\ feed' = applyPagination(all, nextPage).shown
     /\ hasMore' = applyPagination(all, nextPage).more
     /\ page' = nextPage
     /\ last' = Event("loadMore", "more", "none")
  /\ UNCHANGED <<favVars, searchVars, scan, sections>> /\ UNCHANGED <<screen, now, cache, all, totalPages, loading, loadingMore,
                 refreshing, selectedCategory, refreshCat, isCacheLoaded,
                 userLocation, searchQuery, boutique, pc, mountIssued,
                 inflight>>

\* onRefresh: fetchPromoProducts(false) / fetchShops(lat, lng, false), with
\* the default coordinates when no userLocation is known
onRefreshLocal ==
  /\ screen \in {"promo", "shops"}
  /\ ListVisible
  /\ Tap
  /\ CanStart
  /\ refreshing' = TRUE
  /\ inflight' = Start(Task("fetch", "refresh", 1, FALSE))
  /\ last' = Request("refresh", 1, NoCategory,
        IF screen = "promo" THEN "none"
        ELSE IF userLocation # "none" THEN userLocation ELSE "default")
  /\ UNCHANGED <<favVars, searchVars, scan, sections>> /\ UNCHANGED <<screen, now, cache, all, feed, page, hasMore, totalPages,
                 loading, loadingMore, selectedCategory, refreshCat,
                 isCacheLoaded, userLocation, searchQuery, boutique, pc,
                 mountIssued>>

\* typing in the search box, and the search effect that follows
setSearchQuery(q) ==
  /\ screen \in {"promo", "shops"}
  /\ ListVisible
  /\ Tap
  /\ q # searchQuery
  /\ searchQuery' = q
  /\ LET eff == SearchEffect(q, all, page) IN
     /\ feed' = eff.shown
     /\ hasMore' = eff.more
     /\ page' = eff.page
  /\ last' = Event("search", "none", "none")
  /\ UNCHANGED <<favVars, searchVars, scan, sections>> /\ UNCHANGED <<screen, now, cache, all, totalPages, loading, loadingMore,
                 refreshing, selectedCategory, refreshCat, isCacheLoaded,
                 userLocation, boutique, pc, mountIssued, inflight>>

\* ================================================================ ShopDetail
\* (src/unnamed/part_002)

\* the mount effect: fetchShopData(1, true) up to its fetch
fetchShopDataMount ==
  /\ screen = "shopdetail"
  /\ MountPending
  /\ loading' = TRUE
  /\ inflight' = Start(Task("fetch", "init", 1, FALSE))
  /\ pc' = "running"
  /\ mountIssued' = TRUE
  /\ last' = Request("init", 1, NoCategory, "none")
  /\ UNCHANGED <<favVars, searchVars, scan, sections>> /\ UNCHANGED <<taps, screen, now, cache, all, feed, page, hasMore, totalPages,
                 loadingMore, refreshing, selectedCategory, refreshCat,
                 isCacheLoaded, userLocation, searchQuery, boutique>>

\* loadMore: the list-end event
loadMoreShop ==
  /\ screen = "shopdetail"
  /\ ListVisible
  /\ Tap /\ boutique
  /\ page < totalPages /\ ~loadingMore
  /\ page + 1 <= MaxPage
  /\ CanStart
  /\ loadingMore' = TRUE
  /\ inflight' = Start(Task("fetch", "more", page + 1, FALSE))
  /\ last' = Request("more", page + 1, NoCategory, "none")
  /\ UNCHANGED <<favVars, searchVars, scan, sections>> /\ UNCHANGED <<screen, now, cache, all, feed, page, hasMore, totalPages,
                 loading, refreshing, selectedCategory, refreshCat,
                 isCacheLoaded, userLocation, searchQuery, boutique, pc,
                 mountIssued>>

\* onRefresh: pull-to-refresh, or the retry button of the error view;
\* fetchShopData(1, true) up to its fetch
onRefreshShop ==
  /\ screen = "shopdetail"
  /\ ListVisible
  /\ Tap
  /\ CanStart
  /\ refreshing' = TRUE
  /\ loading' = TRUE
  /\ inflight' = Start(Task("fetch", "refresh", 1, FALSE))
  /\ last' = Request("refresh", 1, NoCategory, "none")
  /\ UNCHANGED <<favVars, searchVars, scan, sections>> /\ UNCHANGED <<screen, now, cache, all, feed, page, hasMore, totalPages,
                 loadingMore, selectedCategory, refreshCat, isCacheLoaded,
                 userLocation, searchQuery, boutique, pc, mountIssued>>

\* fetchShopData(pageNum, shouldReset), from the response on.  The backend
\* echoes the requested page in pagination.page.
fetchShopData(t, r) ==
  /\ screen = "shopdetail"
  /\ t.task = "fetch"
  /\ LET pageNum == t.page
         shouldReset == t.kind # "more" IN
     /\ IF r.out = "ok"
        THEN /\ r.totalPages >= 1
             /\ boutique' = TRUE
             /\ all' = IF shouldReset THEN r.products ELSE all \o r.products
             /\ totalPages' = r.totalPages
             /\ page' = pageNum
        ELSE UNCHANGED <<boutique, all, totalPages, page>>
     /\ last' = Response(t.kind, r, r.products, pageNum)
  /\ feed' = all'
  /\ loading' = FALSE
  /\ loadingMore' = FALSE
  /\ refreshing' = FALSE
  /\ pc' = IF t.kind = "init" THEN "done" ELSE pc
  /\ inflight' = Finish(t)
  /\ UNCHANGED <<favVars, searchVars, scan, sections>> /\ UNCHANGED <<taps, screen, now, cache, hasMore, selectedCategory, refreshCat,
                 isCacheLoaded, userLocation, searchQuery, mountIssued>>


\* ====================================================== favorites ledger
\* (src/app/Favoris.tsx and src/unnamed/part_001: getFavorites, addFavorite,
\* removeFavorite, isFavorite; the persisted list is modelled by its ids)
\*
\* AsyncStorage serves the calls in the order they are issued, so a call
\* takes effect in the step that issues it and the handler resumes, in a
\* later step, with what the call returned.  Every call may reject (ok =
\* FALSE).

\* favs.some(fav => fav.id === id)
Contains(favs, id) == id \in Range(favs)

\* a list that takes its new entry at the end
Prepend_append(id, favs) == favs \o <<id>>

\* [newFav, ...favorites] / favs.unshift(newFav)
Prepend(id, favs) == <<id>> \o favs

\* a removal that drops only the first matching entry
RemoveId_first(favs, id) ==
  IF ~Contains(favs, id) THEN favs
  ELSE LET i == CHOOSE k \in DOMAIN favs :
                  favs[k] = id /\ \A j \in 1..(k - 1) : favs[j] # id IN
         SubSeq(favs, 1, i - 1) \o SubSeq(favs, i + 1, Len(favs))

\* favorites.filter(fav => fav.id !== id)
RemoveId(favs, id) == SelectSeq(favs, LAMBDA i : i # id)

\* getFavorites: the stored list, [] when getItem rejects
getFavorites(store, ok) == IF ok THEN store ELSE <<>>

\* AsyncStorage.setItem: the store after writing `value`
setItem(store, value, ok) == IF ok THEN value ELSE store

\* isFavorite, after its getFavorites
isFavorite(favs, id) == Contains(favs, id)

\* an addFavorite that prepends to the list as it is when it writes
addFavorite_onStore(store, favs, id, ok) ==
  IF ~Contains(store, id) THEN setItem(store, Prepend(id, store), ok)
  ELSE store

\* addFavorite, after its getFavorites: the store it leaves
addFavorite(store, favs, id, ok) ==
  IF ~Contains(favs, id) THEN setItem(store, Prepend(id, favs), ok)
  ELSE store

\* removeFavorite, after its getFavorites: the store it leaves
removeFavorite(store, favs, id, ok) == setItem(store, RemoveId(favs, id), ok)

\* the lists the store can hold, duplicates included
FavLists == UNION {[1..n -> Ids] : n \in 0..MaxFavs}

\* favorites handlers suspended at a storage await
FTask(pr, c, i, f, b, o) ==
  [proc |-> pr, pc |-> c, id |-> i, favs |-> f, isFav |-> b, ok |-> o]

FavTasks == BagToSet(favTasks)
FavCanStart == BagCardinality(favTasks) < MaxInFlight
FavStart(t) == favTasks (+) SetToBag({t})
FavFinish(t) == favTasks (-) SetToBag({t})
FavReplace(t, u) == (favTasks (-) SetToBag({t})) (+) SetToBag({u})

\* a favorites gesture on any screen
FavTap == taps < MaxTaps /\ taps' = taps + 1

\* ---------------------------------------------------- Discover favorites
\* loadFavoritesCount, called by the mount effect: up to `await getFavorites()`
loadFavoritesCount(t, ok) ==
  /\ t.proc = "dCount" /\ t.pc = "start"
  /\ favTasks' = FavReplace(t, [t EXCEPT !.pc = "count",
                                         !.favs = getFavorites(favStore, ok)])
  /\ UNCHANGED <<screenVars, searchVars, scan>>
  /\ UNCHANGED <<taps, favStore, liked, favoritesCount, pdProduct,
                 pdIsFavorite, fsFavorites, rt>>

\* loadFavoritesCount, after its await: setFavoritesCount(favs.length)
setFavoritesCount(t) ==
  /\ t.proc = "dCount" /\ t.pc = "count"
  /\ favoritesCount' = Len(t.favs)
  /\ favTasks' = FavFinish(t)
  /\ UNCHANGED <<screenVars, searchVars, scan>>
  /\ UNCHANGED <<taps, favStore, liked, pdProduct, pdIsFavorite,
                 fsFavorites, rt>>

\* toggleFavorite(product): a tap on a heart; up to the getFavorites of
\* `await isFavorite(product.id)`
toggleFavorite(p, ok) ==
  /\ FavTap
  /\ FavCanStart
  /\ favTasks' = FavStart(FTask("dToggle", "isFavorite", p,
                                getFavorites(favStore, ok), FALSE, TRUE))
  /\ UNCHANGED <<screenVars, searchVars, scan>>
  /\ UNCHANGED <<favStore, liked, favoritesCount, pdProduct, pdIsFavorite,
                 fsFavorites, rt>>

\* toggleFavorite, from isFav on: up to the getFavorites of removeFavorite
\* or addFavorite
toggleFavoriteRead(t, ok) ==
  /\ t.proc = "dToggle" /\ t.pc = "isFavorite"
  /\ favTasks' = FavReplace(t, [t EXCEPT !.pc = "update",
                                         !.isFav = isFavorite(t.favs, t.id),
                                         !.favs = getFavorites(favStore, ok)])
  /\ UNCHANGED <<screenVars, searchVars, scan>>
  /\ UNCHANGED <<taps, favStore, liked, favoritesCount, pdProduct,
                 pdIsFavorite, fsFavorites, rt>>

\* removeFavorite / addFavorite inside toggleFavorite, from their list on:
\* up to the setItem
toggleFavoriteWrite(t, ok) ==
  /\ t.proc = "dToggle" /\ t.pc = "update"
  /\ favStore' = IF t.isFav THEN removeFavorite(favStore, t.favs, t.id, ok)
                 ELSE addFavorite(favStore, t.favs, t.id, ok)
  /\ Len(favStore') <= MaxFavs
  /\ favTasks' = FavReplace(t, [t EXCEPT !.pc = "written", !.ok = ok])
  /\ UNCHANGED <<screenVars, searchVars, scan>>
  /\ UNCHANGED <<taps, liked, favoritesCount, pdProduct, pdIsFavorite,
                 fsFavorites, rt>>

\* toggleFavorite, after removeFavorite / addFavorite has returned: flip
\* isLiked in the three lists, then loadFavoritesCount up to its await
toggleFavoriteDone(t, ok) ==
  /\ t.proc = "dToggle" /\ t.pc = "written"
  /\ liked' = IF t.isFav THEN liked \ {t.id} ELSE liked \cup {t.id}
  /\ favTasks' = FavReplace(t, FTask("dCount", "count", 0,
                                     getFavorites(favStore, ok), FALSE, TRUE))
  /\ UNCHANGED <<screenVars, searchVars, scan>>
  /\ UNCHANGED <<taps, favStore, favoritesCount, pdProduct, pdIsFavorite,
                 fsFavorites, rt>>

\* ---------------------------------------------------------- ProductDetail
\* the product has arrived (setProduct), and the effect on `product` calls
\* checkIfFavorite, which runs up to its getItem.  A new screen instance
\* starts with isFavorite = false.
openProduct(p, ok) ==
  /\ FavTap
  /\ FavCanStart
  /\ \A t \in FavTasks : t.proc \notin {"pdCheck", "pdToggle"}
  /\ pdProduct' = p
  /\ pdIsFavorite' = FALSE
  /\ favTasks' = FavStart(FTask("pdCheck", "read", p,
                                getFavorites(favStore, ok), FALSE, ok))
  /\ UNCHANGED <<screenVars, searchVars, scan>>
  /\ UNCHANGED <<favStore, liked, favoritesCount, fsFavorites, rt>>

\* checkIfFavorite, after its getItem (a rejection is logged)
checkIfFavorite(t) ==
  /\ t.proc = "pdCheck"
  /\ pdIsFavorite' = IF t.ok THEN Contains(t.favs, t.id) ELSE pdIsFavorite
  /\ favTasks' = FavFinish(t)
  /\ UNCHANGED <<screenVars, searchVars, scan>>
  /\ UNCHANGED <<taps, favStore, liked, favoritesCount, pdProduct,
                 fsFavorites, rt>>

\* ProductDetail.toggleFavorite: a tap on the heart; up to its getItem.  The
\* handler keeps the isFavorite of the render it was created in.
pdToggleFavorite(ok) ==
  /\ pdProduct # 0
  /\ FavTap
  /\ FavCanStart
  /\ favTasks' = FavStart(FTask("pdToggle", "read", pdProduct,
                                getFavorites(favStore, ok), pdIsFavorite, ok))
  /\ UNCHANGED <<screenVars, searchVars, scan>>
  /\ UNCHANGED <<favStore, liked, favoritesCount, pdProduct, pdIsFavorite,
                 fsFavorites, rt>>

\* ProductDetail.toggleFavorite, after its getItem: filter or unshift, up to
\* the setItem (a rejected getItem ends the handler in its catch)
pdToggleFavoriteWrite(t, ok) ==
  /\ t.proc = "pdToggle" /\ t.pc = "read"
  /\ IF t.ok
     THEN LET favs == IF t.isFav THEN RemoveId(t.favs, t.id)
                      ELSE Prepend(t.id, t.favs) IN
          /\ Len(favs) <= MaxFavs
          /\ favStore' = setItem(favStore, favs, ok)
          /\ favTasks' = FavReplace(t, [t EXCEPT !.pc = "written", !.ok = ok])
     ELSE /\ favTasks' = FavFinish(t)
          /\ UNCHANGED favStore
  /\ UNCHANGED <<screenVars, searchVars, scan>>
  /\ UNCHANGED <<taps, liked, favoritesCount, pdProduct, pdIsFavorite,
                 fsFavorites, rt>>

\* ProductDetail.toggleFavorite, after its setItem: setIsFavorite(!isFavorite)
pdToggleFavoriteDone(t) ==
  /\ t.proc = "pdToggle" /\ t.pc = "written"
  /\ pdIsFavorite' = IF t.ok THEN ~t.isFav ELSE pdIsFavorite
  /\ favTasks' = FavFinish(t)
  /\ UNCHANGED <<screenVars, searchVars, scan>>
  /\ UNCHANGED <<taps, favStore, liked, favoritesCount, pdProduct,
                 fsFavorites, rt>>

\* ---------------------------------------------------------- FavorisScreen
\* the focus effect: loadFavorites up to its getItem
loadFavorites(ok) ==
  /\ FavTap
  /\ FavCanStart
  /\ favTasks' = FavStart(FTask("fsLoad", "read", 0,
                                getFavorites(favStore, ok), FALSE, ok))
  /\ UNCHANGED <<screenVars, searchVars, scan>>
  /\ UNCHANGED <<favStore, liked, favoritesCount, pdProduct, pdIsFavorite,
                 fsFavorites, rt>>

\* FavorisScreen.removeFavorite(id): a tap on the bin of a displayed item;
\* filters the favorites of the render, up to its setItem
fsRemoveFavorite(id, ok) ==
  /\ Contains(fsFavorites, id)
  /\ FavTap
  /\ FavCanStart
  /\ LET updated == RemoveId(fsFavorites, id) IN
     /\ favStore' = setItem(favStore, updated, ok)
     /\ favTasks' = FavStart(FTask("fsRemove", "written", id, updated,
                                   FALSE, ok))
  /\ UNCHANGED <<screenVars, searchVars, scan>>
  /\ UNCHANGED <<liked, favoritesCount, pdProduct, pdIsFavorite,
                 fsFavorites, rt>>

\* loadFavorites / removeFavorite after their await: setFavorites
setFavorites(t) ==
  /\ t.proc \in {"fsLoad", "fsRemove"}
  /\ fsFavorites' = IF t.ok THEN t.favs ELSE fsFavorites
  /\ favTasks' = FavFinish(t)
  /\ UNCHANGED <<screenVars, searchVars, scan>>
  /\ UNCHANGED <<taps, favStore, liked, favoritesCount, pdProduct,
                 pdIsFavorite, rt>>

\* the screens idle on Discover while the favorites are used
InitFav ==
  /\ InitScreens
  /\ SearchIdle
  /\ scan = NoScan
  /\ screen = "discover" /\ cache = NoCache
  /\ favStore \in {f \in FavLists : NoDup(f)}
  /\ favTasks = SetToBag({FTask("dCount", "start", 0, <<>>, FALSE, TRUE)})
  /\ liked = Range(favStore)
  /\ favoritesCount = 0
  /\ pdProduct = 0
  /\ pdIsFavorite = FALSE
  /\ fsFavorites = <<>>
  /\ rt = NoCaller

NextFav ==
  \/ \E t \in FavTasks, ok \in BOOLEAN : loadFavoritesCount(t, ok)
  \/ \E t \in FavTasks : setFavoritesCount(t)
  \/ \E p \in Ids, ok \in BOOLEAN : toggleFavorite(p, ok)
  \/ \E t \in FavTasks, ok \in BOOLEAN : toggleFavoriteRead(t, ok)
  \/ \E t \in FavTasks, ok \in BOOLEAN : toggleFavoriteWrite(t, ok)
  \/ \E t \in FavTasks, ok \in BOOLEAN : toggleFavoriteDone(t, ok)
  \/ \E p \in Ids, ok \in BOOLEAN : openProduct(p, ok)
  \/ \E t \in FavTasks : checkIfFavorite(t)
  \/ \E ok \in BOOLEAN : pdToggleFavorite(ok)
  \/ \E t \in FavTasks, ok \in BOOLEAN : pdToggleFavoriteWrite(t, ok)
  \/ \E t \in FavTasks : pdToggleFavoriteDone(t)
  \/ \E ok \in BOOLEAN : loadFavorites(ok)
  \/ \E id \in Ids, ok \in BOOLEAN : fsRemoveFavorite(id, ok)
  \/ \E t \in FavTasks : setFavorites(t)

SpecFav == InitFav /\ [][NextFav]_vars

\* ------------------------------------------- the ledger called in sequence
\* a caller that awaits addFavorite(p), isFavorite(p.id), removeFavorite(p.id)
\* and isFavorite(p.id) one after the other, alone on the store.  rt.err
\* records that a storage call has rejected.
InitRT ==
  /\ InitScreens
  /\ SearchIdle
  /\ scan = NoScan
  /\ screen = "discover" /\ cache = NoCache
  /\ favStore \in FavLists
  /\ favTasks = EmptyBag
  /\ liked = {}
  /\ favoritesCount = 0
  /\ pdProduct = 0
  /\ pdIsFavorite = FALSE
  /\ fsFavorites = <<>>
  /\ \E p \in Ids : rt = [NoCaller EXCEPT !.pc = "add", !.p = p,
                                          !.start = favStore]

RTUnchanged ==
  /\ UNCHANGED <<screenVars, searchVars, scan>>
  /\ UNCHANGED <<taps, favTasks, liked, favoritesCount, pdProduct,
                 pdIsFavorite, fsFavorites>>

\* addFavorite / removeFavorite up to the await of getFavorites
rtGetFavorites(ok) ==
  /\ rt.pc \in {"add", "remove"}
  /\ rt' = [rt EXCEPT !.pc = IF rt.pc = "add" THEN "addWrite"
                             ELSE "removeWrite",
                      !.favs = getFavorites(favStore, ok),
                      !.err = rt.err \/ ~ok]
  /\ UNCHANGED favStore
  /\ RTUnchanged

\* addFavorite from its list on
rtAddFavorite(ok) ==
  /\ rt.pc = "addWrite"
  /\ favStore' = addFavorite(favStore, rt.favs, rt.p, ok)
  /\ rt' = [rt EXCEPT !.pc = "isFavorite1",
                      !.err = rt.err \/ (~Contains(rt.favs, rt.p) /\ ~ok)]
  /\ RTUnchanged

\* isFavorite, whole
rtIsFavorite(ok) ==
  /\ rt.pc \in {"isFavorite1", "isFavorite2"}
  /\ LET found == isFavorite(getFavorites(favStore, ok), rt.p) IN
       rt' = IF rt.pc = "isFavorite1"
             THEN [rt EXCEPT !.pc = "remove", !.r1 = found,
                             !.err = rt.err \/ ~ok]
             ELSE [rt EXCEPT !.pc = "done", !.r2 = found,
                             !.err = rt.err \/ ~ok]
  /\ UNCHANGED favStore
  /\ RTUnchanged

\* removeFavorite from its list on
rtRemoveFavorite(ok) ==
  /\ rt.pc = "removeWrite"
  /\ favStore' = removeFavorite(favStore, rt.favs, rt.p, ok)
  /\ rt' = [rt EXCEPT !.pc = "isFavorite2", !.err = rt.err \/ ~ok]
  /\ RTUnchanged

NextRT ==
  \/ \E ok \in BOOLEAN : rtGetFavorites(ok)
  \/ \E ok \in BOOLEAN : rtAddFavorite(ok)
  \/ \E ok \in BOOLEAN : rtIsFavorite(ok)
  \/ \E ok \in BOOLEAN : rtRemoveFavorite(ok)

SpecRT == InitRT /\ [][NextRT]_vars

\* ---------------------------------------------- addFavorite called twice
\* a caller that awaits addFavorite(p) and then addFavorite(p) again, alone
\* on the store.  rt.mid is the store the first call has left, rt.wrote
\* whether the second call has called setItem.
InitAdd ==
  /\ InitScreens
  /\ SearchIdle
  /\ scan = NoScan
  /\ screen = "discover" /\ cache = NoCache
  /\ favStore \in FavLists
  /\ favTasks = EmptyBag
  /\ liked = {}
  /\ favoritesCount = 0
  /\ pdProduct = 0
  /\ pdIsFavorite = FALSE
  /\ fsFavorites = <<>>
  /\ \E p \in Ids : rt = [NoCaller EXCEPT !.pc = "add1", !.p = p,
                                          !.start = favStore]

\* addFavorite up to the await of getFavorites
addGetFavorites(ok) ==
  /\ rt.pc \in {"add1", "add2"}
  /\ rt' = [rt EXCEPT !.pc = IF rt.pc = "add1" THEN "add1Write"
                             ELSE "add2Write",
                      !.favs = getFavorites(favStore, ok),
                      !.err = rt.err \/ ~ok]
  /\ UNCHANGED favStore
  /\ RTUnchanged

\* addFavorite from its list on
addAddFavorite(ok) ==
  /\ rt.pc \in {"add1Write", "add2Write"}
  /\ favStore' = addFavorite(favStore, rt.favs, rt.p, ok)
  /\ rt' = IF rt.pc = "add1Write"
           THEN [rt EXCEPT !.pc = "add2", !.mid = favStore',
                           !.err = rt.err \/ (~Contains(rt.favs, rt.p) /\ ~ok)]
           ELSE [rt EXCEPT !.pc = "added", !.wrote = ~Contains(rt.favs, rt.p),
                           !.err = rt.err \/ (~Contains(rt.favs, rt.p) /\ ~ok)]
  /\ RTUnchanged

NextAdd ==
  \/ \E ok \in BOOLEAN : addGetFavorites(ok)
  \/ \E ok \in BOOLEAN : addAddFavorite(ok)

SpecAdd == InitAdd /\ [][NextAdd]_vars

\* ======================================================= RechercheAvancee
\* A query is the sequence of its characters.  The queries a run types, says
\* or taps: blank ones, one term in two capitalisations and with a trailing
\* space, and two other terms.
Queries == {<<>>, <<" ">>, <<"a">>, <<"A">>, <<"a", " ">>, <<"b">>, <<"c">>}

\* String.prototype.trim
RECURSIVE trimStart(_)
trimStart(q) ==
  IF q # <<>> /\ Head(q) = " " THEN trimStart(Tail(q)) ELSE q
RECURSIVE trimEnd(_)
trimEnd(q) ==
  IF q # <<>> /\ q[Len(q)] = " " THEN trimEnd(SubSeq(q, 1, Len(q) - 1)) ELSE q
trim(q) == trimEnd(trimStart(q))

\* String.prototype.toLowerCase
toLowerCase(q) == [k \in DOMAIN q |-> IF q[k] = "A" THEN "a" ELSE q[k]]

\* saveSearchHistory with a filter that compares the entries as they are
saveSearchHistory_caseSensitive(history, query) ==
  Slice(<<trim(query)>>
          \o SelectSeq(history, LAMBDA item : item # trim(query)),
        MaxHistory)

\* saveSearchHistory: the list updatedHistory it computes from the
\* searchHistory of its closure
saveSearchHistory(history, query) ==
  Slice(<<trim(query)>>
          \o SelectSeq(history, LAMBDA item :
                         toLowerCase(item) # toLowerCase(trim(query))),
        MaxHistory)

\* a handler suspended at an await.  `history` is the searchHistory of the
\* render that created the handler, `found` what getItem has read, `live`
\* whether the component that started the handler is still mounted.
STask(pr, at, q, h, f, r, l) ==
  [proc |-> pr, pc |-> at, query |-> q, history |-> h, found |-> f,
   reset |-> r, live |-> l, page |-> 0]

SearchTasks == BagToSet(searchTasks)
SearchCanStart == BagCardinality(searchTasks) < MaxSearches
SearchStart(t) == searchTasks (+) SetToBag({t})
SearchFinish(t) == searchTasks (-) SetToBag({t})
SearchReplace(t, u) == (searchTasks (-) SetToBag({t})) (+) SetToBag({u})
SearchTap == taps < MaxTaps /\ taps' = taps + 1

SearchOutcomes == {"ok", "nosuccess", "exception"}

\* initializeApp -> loadSearchHistory, up to `await AsyncStorage.getItem`
LoadTask == STask("load", "read", <<>>, <<>>, historyStore, TRUE, TRUE)

\* loadSearchHistory from the answer of getItem on: a rejected read is
\* logged, an absent key leaves the state alone
loadSearchHistory(t, ok) ==
  /\ t.proc = "load"
  /\ searchTasks' = SearchFinish(t)
  /\ searchHistory' = IF t.live /\ ok /\ t.found.present
                      THEN Slice(t.found.list, MaxHistory)
                      ELSE searchHistory
  /\ lastSave' = NoSave
  /\ UNCHANGED <<historyStore, isSearching, searchLoading, searchError, taps>>
  /\ UNCHANGED <<screenVars, favVars, scan, results>>

\* handleSearch(query, reset) up to the await of the network: called with
\* the text typed, said or tapped (reset) and by handleLoadMore (no reset,
\* guarded by !loading)
handleSearch(query, reset) ==
  /\ SearchTap
  /\ reset \/ ~searchLoading
  /\ IF trim(query) = <<>>
     THEN UNCHANGED <<isSearching, searchLoading, searchError, searchTasks>>
     ELSE /\ SearchCanStart
          /\ isSearching' = (reset \/ isSearching)
          /\ searchError' = (~reset /\ searchError)
          /\ searchLoading' = (~reset \/ searchLoading)
          /\ searchTasks' = SearchStart(STask("search", "fetch", query,
                                              searchHistory, NoHistory,
                                              reset, TRUE))
  /\ lastSave' = NoSave
  /\ UNCHANGED <<searchHistory, historyStore>>
  /\ UNCHANGED <<screenVars, favVars, scan, results>>

\* handleSearch from the answer of the network on.  A success body runs
\* saveSearchHistory up to `await AsyncStorage.setItem` (a rejected write is
\* logged); anything else goes through catch / finally.
searchResponse(t, o, ok) ==
  /\ t.proc = "search" /\ t.pc = "fetch"
  /\ IF o = "ok"
     THEN LET updatedHistory == saveSearchHistory(t.history, t.query) IN
          /\ searchHistory' = IF t.live THEN updatedHistory ELSE searchHistory
          /\ historyStore' = IF ok THEN Stored(updatedHistory) ELSE historyStore
          /\ lastSave' = IF t.live THEN Saved(t.query, searchHistory, ok)
                         ELSE NoSave
          /\ searchTasks' = SearchReplace(t, [t EXCEPT !.pc = "saved"])
          /\ UNCHANGED <<isSearching, searchLoading, searchError>>
     ELSE /\ ok
          /\ searchError' = IF t.live /\ o = "exception" THEN TRUE
                            ELSE searchError
          /\ isSearching' = (~t.live /\ isSearching)
          /\ searchLoading' = (~t.live /\ searchLoading)
          /\ searchTasks' = SearchFinish(t)
          /\ lastSave' = NoSave
          /\ UNCHANGED <<searchHistory, historyStore>>
  /\ UNCHANGED taps
  /\ UNCHANGED <<screenVars, favVars, scan, results>>

\* handleSearch after saveSearchHistory: the finally block
searchDone(t) ==
  /\ t.proc = "search" /\ t.pc = "saved"
  /\ isSearching' = (~t.live /\ isSearching)
  /\ searchLoading' = (~t.live /\ searchLoading)
  /\ searchTasks' = SearchFinish(t)
  /\ lastSave' = NoSave
  /\ UNCHANGED <<searchHistory, historyStore, searchError, taps>>
  /\ UNCHANGED <<screenVars, favVars, scan, results>>

\* clearSearchHistory, confirmed: setSearchHistory([]) then removeItem
clearSearchHistory(ok) ==
  /\ SearchTap
  /\ searchHistory # <<>>
  /\ searchHistory' = <<>>
  /\ historyStore' = IF ok THEN NoHistory ELSE historyStore
  /\ lastSave' = NoSave
  /\ UNCHANGED <<isSearching, searchLoading, searchError, searchTasks>>
  /\ UNCHANGED <<screenVars, favVars, scan, results>>

\* the screen is left and opened again: a new component with the initial
\* state runs initializeApp, the handlers of the old one keep running and
\* their state updates are dropped
Unmounted(t) == [t EXCEPT !.live = FALSE]
remount ==
  /\ SearchTap
  /\ SearchCanStart
  /\ searchHistory' = <<>>
  /\ isSearching' = FALSE
  /\ searchLoading' = FALSE
  /\ searchError' = FALSE
  /\ searchTasks' =
       LET old == [u \in {Unmounted(t) : t \in SearchTasks} |->
                     CopiesIn(u, searchTasks)
                       + CopiesIn([u EXCEPT !.live = TRUE], searchTasks)]
       IN old (+) SetToBag({LoadTask})
  /\ lastSave' = NoSave
  /\ UNCHANGED historyStore
  /\ UNCHANGED <<screenVars, favVars, scan, results>>

InitSearch ==
  /\ InitScreens
  /\ screen = "discover" /\ cache = NoCache
  /\ InitFavIdle
  /\ searchHistory = <<>>
  /\ historyStore = NoHistory
  /\ isSearching = FALSE
  /\ searchLoading = FALSE
  /\ searchError = FALSE
  /\ searchTasks = SetToBag({LoadTask})
  /\ lastSave = NoSave
  /\ results = NoResults
  /\ scan = NoScan

NextSearch ==
  \/ \E t \in SearchTasks, ok \in BOOLEAN : loadSearchHistory(t, ok)
  \/ \E q \in Queries \cup Range(searchHistory), reset \in BOOLEAN :
       handleSearch(q, reset)
  \/ \E t \in SearchTasks, o \in SearchOutcomes, ok \in BOOLEAN :
       searchResponse(t, o, ok)
  \/ \E t \in SearchTasks : searchDone(t)
  \/ \E ok \in BOOLEAN : clearSearchHistory(ok)
  \/ remount

SpecSearch == InitSearch /\ [][NextSearch]_vars

\* =========================================== Discover: the isLiked flags
\* (src/app/Favoris.tsx, DiscoverScreen.fetchProducts 3460-3482 and
\* filterByCategory 3608-3616, with the toggles of the hearts beside them)

\* the callers of a fetch: the mount effect, loadMoreProducts, onRefresh,
\* filterByCategory
ScanKinds == {"init", "more", "refresh", "filter"}

\* formatProducts: isLiked = Boolean(p.isLiked), the flags the backend sent
formatProducts(products, backendLiked) == Range(products) \cap backendLiked

\* a product object whose isLiked is left as formatProducts made it
setIsLiked_asSent(flags, id, isFav) == flags

\* p.isLiked = <the answer of isFavorite(p.id)>
setIsLiked(flags, id, isFav) ==
  IF isFav THEN flags \cup {id} ELSE flags \ {id}

\* setAllProducts / setFeedProducts with the fetched products: page 1
\* replaces the list, a later page appends the products whose id is new
scanPlace(sc, products) ==
  LET new == IF sc.kind = "more" THEN Range(products) \ Range(all)
             ELSE Range(products) IN
  /\ all' = IF sc.kind = "more" THEN AppendNew(all, products) ELSE products
  /\ feed' = IF sc.kind = "more" THEN AppendNew(feed, products)
             ELSE Slice(products, ITEMS_PER_PAGE)
  /\ liked' = IF sc.kind = "more" THEN (liked \ new) \cup (sc.flags \cap new)
              ELSE sc.flags
  /\ scan' = [sc EXCEPT !.pc = "placed", !.placed = new]

\* the request of a fetch is sent (one fetch at a time)
scanRequest(kind) ==
  /\ FavTap
  /\ scan.pc \in {"idle", "placed"}
  /\ kind = "init" => scan.pc = "idle"
  /\ kind = "more" => scan.pc = "placed"
  /\ scan' = [NoScan EXCEPT !.pc = "fetch", !.kind = kind]
  /\ UNCHANGED <<searchVars, screenVars, favVars>>

\* the response is handled: formatProducts, then the loop over the products
\* up to the getFavorites of its first isFavorite; with no product the lists
\* are set at once; a failure sets nothing
scanResponse(r, backendLiked, ok) ==
  /\ scan.pc = "fetch"
  /\ backendLiked \subseteq Range(r.products)
  /\ IF r.out # "ok"
     THEN /\ ok /\ backendLiked = {}
          /\ scan' = NoScan
          /\ UNCHANGED <<all, feed, liked>>
     ELSE LET sc == [scan EXCEPT
                       !.products = r.products, !.sent = backendLiked,
                       !.flags = formatProducts(r.products, backendLiked)]
          IN IF r.products = <<>>
             THEN ok /\ scanPlace(sc, <<>>)
             ELSE /\ scan' = [sc EXCEPT
                                !.pc = "reading", !.k = 1,
                                !.snap = getFavorites(favStore, ok),
                                !.member = IF Contains(favStore, r.products[1])
                                           THEN {r.products[1]} ELSE {},
                                !.failed = IF ok THEN {}
                                           ELSE {r.products[1]}]
                  /\ UNCHANGED <<all, feed, liked>>
  /\ UNCHANGED <<screen, now, cache, page, hasMore, totalPages, loading,
                 loadingMore, refreshing, selectedCategory, refreshCat,
                 isCacheLoaded, userLocation, searchQuery, boutique, pc,
                 mountIssued, inflight, last>>
  /\ UNCHANGED <<favStore, favTasks, favoritesCount, pdProduct,
                 pdIsFavorite, fsFavorites, rt>>
  /\ UNCHANGED <<searchVars, taps, sections>>

\* isFavorite(p.id) has answered: the flag of the product is set; then the
\* next isFavorite runs up to its getFavorites or, after the last product,
\* the list is shuffled (first page of fetchProducts) and set
scanRead(ok) ==
  /\ scan.pc = "reading"
  /\ LET id == scan.products[scan.k]
         flags == setIsLiked(scan.flags, id, isFavorite(scan.snap, id))
     IN IF scan.k < Len(scan.products)
        THEN LET next == scan.products[scan.k + 1] IN
             /\ scan' = [scan EXCEPT
                           !.flags = flags, !.k = scan.k + 1,
                           !.snap = getFavorites(favStore, ok),
                           !.member = IF Contains(favStore, next)
                                      THEN scan.member \cup {next}
                                      ELSE scan.member,
                           !.failed = IF ok THEN scan.failed
                                      ELSE scan.failed \cup {next}]
             /\ UNCHANGED <<all, feed, liked>>
        ELSE /\ ok
             /\ \E products \in (IF scan.kind \in {"init", "refresh"}
                                 THEN shuffleArray(scan.products)
                                 ELSE {scan.products}) :
                  scanPlace([scan EXCEPT !.flags = flags], products)
  /\ UNCHANGED <<screen, now, cache, page, hasMore, totalPages, loading,
                 loadingMore, refreshing, selectedCategory, refreshCat,
                 isCacheLoaded, userLocation, searchQuery, boutique, pc,
                 mountIssued, inflight, last>>
  /\ UNCHANGED <<favStore, favTasks, favoritesCount, pdProduct,
                 pdIsFavorite, fsFavorites, rt>>
  /\ UNCHANGED <<searchVars, taps, sections>>

InitLiked ==
  /\ InitScreens
  /\ screen = "discover" /\ cache = NoCache
  /\ SearchIdle
  /\ scan = NoScan
  /\ favStore \in {f \in FavLists : NoDup(f) /\ Len(f) < MaxFavs}
  /\ favTasks = EmptyBag
  /\ liked = {}
  /\ favoritesCount = 0
  /\ pdProduct = 0
  /\ pdIsFavorite = FALSE
  /\ fsFavorites = <<>>
  /\ rt = NoCaller

NextLiked ==
  \/ \E kind \in ScanKinds : scanRequest(kind)
  \/ \E r \in Responses, b \in SUBSET Ids, ok \in BOOLEAN :
       scanResponse(r, b, ok)
  \/ \E ok \in BOOLEAN : scanRead(ok)
  \/ \E p \in Range(all), ok \in BOOLEAN : toggleFavorite(p, ok)
  \/ \E t \in FavTasks, ok \in BOOLEAN : toggleFavoriteRead(t, ok)
  \/ \E t \in FavTasks, ok \in BOOLEAN : toggleFavoriteWrite(t, ok)
  \/ \E t \in FavTasks, ok \in BOOLEAN : toggleFavoriteDone(t, ok)
  \/ \E t \in FavTasks : setFavoritesCount(t)

SpecLiked == InitLiked /\ [][NextLiked]_vars

\* ------------------------------------------------------------ specification
Next ==
  \/ Tick
  \/ loadInitialData
  \/ \E t \in Tasks, o \in LocationOutcomes : requestLocationAndFetchData(t, o)
  \/ \E t \in Tasks, r \in Responses : fetchProducts(t, r)
  \/ loadMoreProducts
  \/ onRefresh
  \/ \E c \in Categories : filterByCategory(c)
  \/ \E t \in Tasks, r \in Responses : filterByCategoryDone(t, r)
  \/ fetchInitialProducts
  \/ loadMoreProducts1
  \/ onRefresh1
  \/ \E t \in Tasks, r \in Responses : fetchDone1(t, r)
  \/ loadData
  \/ \E t \in Tasks, o \in LocationOutcomes : loadDataLocation(t, o)
  \/ \E t \in Tasks, r \in Responses : fetchPromoProducts(t, r)
  \/ loadMore
  \/ onRefreshLocal
  \/ \E q \in {"", "q"} : setSearchQuery(q)
  \/ fetchShopDataMount
  \/ loadMoreShop
  \/ onRefreshShop
  \/ \E t \in Tasks, r \in Responses : fetchShopData(t, r)

Spec == Init /\ [][Next]_vars

\* ================================================================== claims
\* --------------------------------------------------------------------- C1
\* C1: after a successful first-page load followed by successful load-more
\* calls, against a backend whose pages may repeat items, the in-memory list
\* of a paginator holds every item identifier exactly once.
C1_PaginatedListHasNoDuplicate ==
  (/\ screen \in {"discover", "discover1", "shopdetail"}
   /\ last.act = "response" /\ last.out = "ok"
   /\ last.kind \in {"init", "more"})
    => NoDup(all) /\ NoDup(feed)

\* --------------------------------------------------------------------- C2
\* C2: under any interleaving of favorites operations issued from any screen
\* (Discover toggleFavorite, ProductDetail toggleFavorite, Favoris
\* removeFavorite), the list persisted under '@shopnet_favorites' never holds
\* two entries with the same id.
C2_PersistedFavoritesUnique == NoDup(favStore)

C4_MountIssuesRequest ==
  (screen \in CacheBacked /\ pc = "done") => mountIssued

C6_FailureLeavesStateAlone ==
  [][(last'.act = "response" /\ last'.out \in Failures)
       => /\ UNCHANGED <<all, feed, page, hasMore, cache>>
          /\ BagCardinality(inflight') < BagCardinality(inflight)]_vars

\* --------------------------------------------------------------------- C7
\* the load-more requests in flight
MoreInFlight ==
  LET more == {t \in Tasks : t.task = "fetch" /\ t.kind = "more"} IN
    IF more = {} THEN 0
    ELSE BagCardinality([t \in more |-> inflight[t]])

\* C7: a load-more request is issued only when no load-more is in flight:
\* at any time at most one load-more request of a list is in flight.
C7_OneLoadMoreInFlight == MoreInFlight <= 1

\* --------------------------------------------------------------------- C8
\* C8: after a reset of the Discover feed (pull-to-refresh or category
\* change) has completed successfully with no other request in flight, the
\* feed holds only items of the page-1 response (its first ITEMS_PER_PAGE),
\* page = 1, and hasMore says whether that response's totalPages exceeds 1.
C8_ResetReinitializesFeed ==
  (/\ screen \in {"discover", "discover1"}
   /\ last.act = "response" /\ last.out = "ok"
   /\ last.kind \in {"refresh", "refreshLoc", "filterSame", "filterOther"}
   /\ inflight = EmptyBag)
    => /\ Range(feed) \subseteq Range(last.products)
       /\ feed = Slice(last.products, ITEMS_PER_PAGE)
       /\ page = 1
       /\ hasMore = (1 < last.totalPages)

\* a refresh that followed a load-more has put the feed back on page 1 of a
\* catalogue of two pages
C8_ResetAfterLoadMore ==
  /\ screen = "discover"
  /\ last.act = "response" /\ last.out = "ok" /\ last.kind = "refresh"
  /\ inflight = EmptyBag
  /\ taps = 2
  /\ Len(all) = MaxResp /\ Len(feed) = ITEMS_PER_PAGE
  /\ page = 1 /\ hasMore /\ last.totalPages = 2

\* --------------------------------------------------------------------- C9
\* after a successful fetch, and at a load-more request
C9_PageAndHasMore ==
  screen \in {"discover", "discover1"} =>
    /\ (last.act = "response" /\ last.out = "ok")
         => page = last.page /\ hasMore = (last.page < last.totalPages)
    /\ (last.act = "request" /\ last.kind = "more")
         => last.page = page + 1 /\ hasMore

\* a load-more that fails
C9_FailedLoadMoreKeepsPage ==
  [][(/\ screen \in {"discover", "discover1"}
      /\ last'.act = "response" /\ last'.kind = "more"
      /\ last'.out \in Failures)
       => page' = page /\ hasMore' = hasMore]_vars

\* C9: once a successful fetch of page n of the Discover feed is applied,
\* page = n and hasMore = (n < totalPages) for the totalPages of that
\* response; a load-more issued while page = n asks for page n + 1; and a
\* failed load-more leaves page as it was.
C9_PageCounter == []C9_PageAndHasMore /\ C9_FailedLoadMoreKeepsPage

\* page 2 of a catalogue of two pages has just been appended
C9_SecondPageApplied ==
  /\ screen = "discover"
  /\ last.act = "response" /\ last.out = "ok" /\ last.kind = "more"
  /\ last.page = 2 /\ page = 2 /\ ~hasMore /\ last.totalPages = 2
  /\ Len(all) = 2

\* -------------------------------------------------------------------- C10
\* C10: for any product p and any initial persisted list, addFavorite(p),
\* isFavorite(p.id), removeFavorite(p.id), isFavorite(p.id) run in sequence
\* with no storage error answer true, then false, and leave every other
\* entry of the list as it was.
C10_FavoritesRoundTrip ==
  (rt.pc = "done" /\ ~rt.err) =>
    /\ rt.r1 = TRUE
    /\ rt.r2 = FALSE
    /\ ~Contains(favStore, rt.p)
    /\ SelectSeq(favStore, LAMBDA i : i # rt.p)
         = SelectSeq(rt.start, LAMBDA i : i # rt.p)

\* the round trip has run without error on a list that held p twice, between
\* other entries
C10_RoundTripDone ==
  /\ rt.pc = "done" /\ ~rt.err
  /\ Len(rt.start) = 3
  /\ rt.start[1] = rt.p /\ rt.start[2] # rt.p /\ rt.start[3] = rt.p
  /\ Len(favStore) = 1

\* -------------------------------------------------------------------- C11
\* the entries of a list with a given id
CountId(favs, id) == Cardinality({k \in DOMAIN favs : favs[k] = id})

\* C11: addFavorite(p) called twice in sequence, with no storage error,
\* leaves exactly one entry with id p.id, and the second call writes
\* nothing: the list after it is the list after the first call.
C11_AddFavoriteIdempotent ==
  (rt.pc = "added" /\ ~rt.err) =>
    /\ CountId(favStore, rt.p) = 1
    /\ favStore = rt.mid
    /\ ~rt.wrote

\* -------------------------------------------------------------------- C12
\* a history the contract allows: at most MaxHistory entries, no two of them
\* equal ignoring case, none of them blank
WellFormedHistory(h) ==
  /\ Len(h) <= MaxHistory
  /\ \A i, j \in DOMAIN h : i # j => toLowerCase(h[i]) # toLowerCase(h[j])
  /\ \A i \in DOMAIN h : trim(h[i]) # <<>>

\* C12: in every reachable state the search history, in memory and as
\* persisted under 'shopnet_search_history_white', has at most MaxHistory
\* entries (the source's 10), no two entries equal ignoring case, and no
\* blank entry.
C12_SearchHistoryWellFormed ==
  /\ WellFormedHistory(searchHistory)
  /\ WellFormedHistory(historyStore.list)

\* a full history held an entry that differs from the query only by its
\* capitalisation, and saveSearchHistory has just stored the new list
C12_CaseVariantReplaced ==
  /\ lastSave.act = "saved" /\ lastSave.ok
  /\ Len(lastSave.before) = MaxHistory
  /\ \E i \in DOMAIN lastSave.before :
       /\ lastSave.before[i] # trim(lastSave.query)
       /\ toLowerCase(lastSave.before[i]) = toLowerCase(trim(lastSave.query))
       /\ lastSave.before[i] \notin Range(searchHistory)
  /\ historyStore = Stored(searchHistory)

\* -------------------------------------------------------------------- C13
\* the history the contract asks for after a successful search for q: the
\* trimmed q first, then the earlier entries other than q (ignoring case) in
\* their order, MaxHistory entries at most
MovedToFront(h, q) ==
  LET others == SelectSeq(h, LAMBDA item :
                               toLowerCase(item) # toLowerCase(trim(q)))
  IN <<trim(q)>> \o Slice(others, MaxHistory - 1)

\* C13: right after a successful search for a non-blank query q the history
\* is the history of just before with the trimmed q moved (or put) in front,
\* and the persisted list, when the write is accepted, is that same list.
C13_SearchMovesQueryToFront ==
  lastSave.act = "saved" =>
    /\ searchHistory = MovedToFront(lastSave.before, lastSave.query)
    /\ lastSave.ok => historyStore = Stored(searchHistory)

\* -------------------------------------------------------------------- C14
\* the mount effect's page-1 request of a Discover screen has just been
\* answered with a success body, and no cached list had been rendered
InitialLoadSucceeded ==
  /\ screen \in {"discover", "discover1"}
  /\ last.act = "response" /\ last.kind = "init" /\ last.out = "ok"
  /\ ~isCacheLoaded

\* C14: when the page-1 load of the Discover feed completes successfully
\* from an empty cache, the feed shown is the first ITEMS_PER_PAGE items of
\* the loaded list, page = 1 and hasMore = (1 < totalPages).
C14_InitialLoadShowsFirstSlice ==
  InitialLoadSucceeded =>
    /\ all = last.products
    /\ Len(feed) = Min(ITEMS_PER_PAGE, Len(last.products))
    /\ \A k \in DOMAIN feed : feed[k] = last.products[k]
    /\ page = 1
    /\ hasMore = (1 < last.totalPages)

\* the end-to-end scenario: more products than a page shows, more pages than
\* one
C14_FirstSliceOfLongPage ==
  /\ InitialLoadSucceeded
  /\ cache.kind # "none"
  /\ Len(last.products) > ITEMS_PER_PAGE
  /\ last.totalPages > 1
  /\ Len(feed) = ITEMS_PER_PAGE
  /\ hasMore

\* -------------------------------------------------------------------- C15
\* the mount effect's request is in flight and no valid cache was found
FirstCallPending(t) ==
  /\ t \in Tasks
  /\ t.task = "fetch" /\ t.kind = "init"
  /\ CASE screen = "discover" -> ~isCacheLoaded
       [] screen \in {"promo", "shops"} -> t.showLoading
       [] OTHER -> TRUE

\* the explicit empty state: the list is on screen, empty, not loading
EmptyStateShown == ListVisible /\ ~loading /\ feed = <<>>

\* a step in which the first network call fails
FirstCallFails ==
  /\ \E t \in Tasks : FirstCallPending(t) /\ inflight' = Finish(t)
  /\ last'.act = "response" /\ last'.kind = "init" /\ last'.out \in Failures

\* a step in which the refresh control of the empty state is activated after
\* the mount effect's request has failed
RetryActivated ==
  /\ EmptyStateShown /\ mountIssued /\ pc = "done" /\ all = <<>>
  /\ taps' = taps + 1
  /\ refreshing'
  /\ last'.kind \in {"refresh", "refreshLoc"}

\* the loader's request for page 1 has been sent and is awaited
RequestIssued ==
  /\ last.act = "request" /\ last.page = 1
  /\ \E t \in Tasks : t.task = "fetch" /\ t.page = 1 /\ t.kind = "refresh"

\* C15: with no valid cache, when the first network call fails the screen
\* leaves its loading state and shows the empty state (empty list,
\* loading = false); activating the retry control of that state issues the
\* loader's network request for page 1 again.
C15_FailureShowsEmptyStateWithRetry ==
  /\ [][FirstCallFails => EmptyStateShown']_vars
  /\ [][RetryActivated => RequestIssued']_vars

\* the retry of the empty state has just been activated on Discover after a
\* first call that failed with nothing cached
C15_RetriedAfterFailure ==
  /\ screen = "discover" /\ ~isCacheLoaded
  /\ mountIssued /\ pc = "done"
  /\ feed = <<>> /\ ~loading
  /\ RequestIssued

\* -------------------------------------------------------------------- C16
\* a step in which a successful fetch of Discover sets the lists
ProductsPlaced == scan.pc # "placed" /\ scan'.pc = "placed"

OwnWrite(t) ==
  IF t.isFav THEN RemoveId(t.favs, t.id)
  ELSE IF Contains(t.favs, t.id) THEN favStore
  ELSE Prepend(t.id, t.favs)

\* a step in which the setItem of toggle t is accepted
WriteAccepted(t) ==
  /\ t.proc = "dToggle" /\ t.pc = "update"
  /\ favTasks' = FavReplace(t, [t EXCEPT !.pc = "written", !.ok = TRUE])

\* C17: favorites operations take no lock: an operation persists the full
\* list it has computed from its own earlier read, whatever has been written
\* since, so that of two operations on different ids started together the
\* later write overwrites the earlier one (last write wins).
C17_LastWriteWins ==
  [][\A t \in FavTasks : WriteAccepted(t) => favStore' = OwnWrite(t)]_vars

\* two additions of different ids have read the same list, both writes were
\* accepted, and the persisted list lacks one of the two ids
C17_UpdateLost ==
  \E t, u \in FavTasks :
    /\ t.proc = "dToggle" /\ t.pc = "written" /\ t.ok /\ ~t.isFav
    /\ u.proc = "dToggle" /\ u.pc = "written" /\ u.ok /\ ~u.isFav
    /\ t.id # u.id
    /\ t.favs = u.favs
    /\ ~Contains(t.favs, t.id) /\ ~Contains(u.favs, u.id)
    /\ favStore = Prepend(u.id, u.favs)
    /\ ~Contains(favStore, t.id)

\* -------------------------------------------------------------------- C18
\* a step in which the loader renders the cached payload
CacheRendered == last'.act = "loadCache" /\ last'.out = "hit"

\* a step in which the loader applies the network result of its request
NetworkResultApplied ==
  /\ screen \in CacheBacked
  /\ last'.act = "response" /\ last'.kind = "init" /\ last'.out = "ok"

\* C18: within one loader invocation the cached payload is rendered before
\* the loader's request is even sent, hence before its result can be
\* applied; the network result, when it arrives, replaces what was
\* rendered (and the cache envelope) and is the state then shown.
C18_CacheThenNetwork ==
  /\ [][CacheRendered =>
          /\ ~mountIssued /\ inflight = EmptyBag
          /\ all' = last'.products
          /\ \A t \in BagToSet(inflight') : t.kind = "init"]_vars
  /\ [][NetworkResultApplied =>
          /\ pc = "running" /\ pc' = "done"
          /\ all' = last'.products
          /\ cache' = Envelope(now, last'.products)]_vars

\* the network result has replaced a cached list that was on screen
C18_NetworkReplacedCachedList ==
  /\ screen = "discover" /\ isCacheLoaded
  /\ last.act = "response" /\ last.kind = "init" /\ last.out = "ok"
  /\ pc = "done"
  /\ Len(last.products) = MaxResp
  /\ all = last.products
  /\ now > MaxAge * MINUTE

\* -------------------------------------------------------------------- C19
\* the mount effect has ended and no handler is suspended at an await:
\* nothing but a user gesture can change the screen any more
Quiescent == pc = "done" /\ inflight = EmptyBag

\* C19: no load failure leaves a screen stuck: once every handler of the
\* screen has settled, loading, loadingMore and refreshing are false and the
\* list (stale or empty, with its refresh control) is on screen, not the
\* loading view.
C19_NoScreenStuck ==
  Quiescent =>
    /\ ~loading /\ ~loadingMore /\ ~refreshing
    /\ ListVisible

\* -------------------------------------------------------------------- C20
\* toggle t of Discover has called setItem and the storage has rejected it
WriteRejected(t) ==
  /\ t.proc = "dToggle" /\ t.pc = "written" /\ ~t.ok
  /\ t.isFav \/ ~Contains(t.favs, t.id)

\* a step in which handler t goes on after its storage call
Resumes(t) == CopiesIn(t, favTasks') < CopiesIn(t, favTasks)

\* C20: when the storage write of a favorites change fails, nothing
\* changes: the persisted list is as before and the view keeps its previous
\* value (the isLiked flags and the badge on Discover, the displayed list on
\* the favorites screen).
C20_FailedWriteChangesNothing ==
  /\ [][\A t \in FavTasks :
          (t.proc = "dToggle" /\ t.pc = "update"
             /\ favTasks' = FavReplace(t, [t EXCEPT !.pc = "written",
                                                    !.ok = FALSE]))
          => favStore' = favStore]_vars
  /\ [][\A t \in FavTasks :
          (WriteRejected(t) /\ Resumes(t))
          => (liked' = liked /\ favoritesCount' = favoritesCount)]_vars
  /\ [][\A t \in BagToSet(favTasks') :
          (t.proc = "fsRemove" /\ ~t.ok /\ CopiesIn(t, favTasks) = 0)
          => (favStore' = favStore /\ fsFavorites' = fsFavorites)]_vars
  /\ [][\A t \in FavTasks :
          (t.proc = "fsRemove" /\ ~t.ok /\ Resumes(t))
          => fsFavorites' = fsFavorites]_vars

\* ================================================= favorites with addedAt
\* (src/app/Favoris.tsx 3270-3307, src/unnamed/part_001 395-432,
\*  src/unnamed/part_002 48-71)
\* The stored entries carry the addedAt of their snapshot; Date.now() is the
\* clock `now`.

\* newFav = { id, ..., addedAt: Date.now() }
newFav(id, t) == [id |-> id, addedAt |-> t]

\* favorites.some(fav => fav.id === product.id)
HasFav(favs, id) == \E k \in DOMAIN favs : favs[k].id = id

\* favorites.filter(fav => fav.id !== productId)
FilterFav(favs, id) == SelectSeq(favs, LAMBDA f : f.id # id)

\* Discover.toggleFavorite after isFavorite's getFavorites: the branch is
\* chosen, and addFavorite / removeFavorite runs up to its getFavorites
atToggleFavoriteRead(t, ok) ==
  /\ t.proc = "dToggle" /\ t.pc = "isFavorite"
  /\ favTasks' = FavReplace(t, [t EXCEPT !.pc = "update",
                                         !.isFav = HasFav(t.favs, t.id),
                                         !.favs = getFavorites(favStore, ok)])
  /\ UNCHANGED <<screenVars, searchVars, scan>>
  /\ UNCHANGED <<taps, favStore, liked, favoritesCount, pdProduct,
                 pdIsFavorite, fsFavorites, rt>>

\* addFavorite / removeFavorite after their getFavorites, up to the setItem
atToggleFavoriteWrite(t, ok) ==
  /\ t.proc = "dToggle" /\ t.pc = "update"
  /\ favStore' = IF t.isFav
                 THEN setItem(favStore, FilterFav(t.favs, t.id), ok)
                 ELSE IF ~HasFav(t.favs, t.id)
                      THEN setItem(favStore,
                                   Prepend(newFav(t.id, now), t.favs), ok)
                      ELSE favStore
  /\ Len(favStore') <= MaxFavs
  /\ favTasks' = FavReplace(t, [t EXCEPT !.pc = "written", !.ok = ok])
  /\ UNCHANGED <<screenVars, searchVars, scan>>
  /\ UNCHANGED <<taps, liked, favoritesCount, pdProduct, pdIsFavorite,
                 fsFavorites, rt>>

\* checkIfFavorite, after its getItem
atCheckIfFavorite(t) ==
  /\ t.proc = "pdCheck"
  /\ pdIsFavorite' = IF t.ok THEN HasFav(t.favs, t.id) ELSE pdIsFavorite
  /\ favTasks' = FavFinish(t)
  /\ UNCHANGED <<screenVars, searchVars, scan>>
  /\ UNCHANGED <<taps, favStore, liked, favoritesCount, pdProduct,
                 fsFavorites, rt>>

\* ProductDetail.toggleFavorite, after its getItem: filter or unshift, up to
\* the setItem
atPdToggleFavoriteWrite(t, ok) ==
  /\ t.proc = "pdToggle" /\ t.pc = "read"
  /\ IF t.ok
     THEN LET favs == IF t.isFav THEN FilterFav(t.favs, t.id)
                      ELSE Prepend(newFav(t.id, now), t.favs) IN
          /\ Len(favs) <= MaxFavs
          /\ favStore' = setItem(favStore, favs, ok)
          /\ favTasks' = FavReplace(t, [t EXCEPT !.pc = "written", !.ok = ok])
     ELSE /\ favTasks' = FavFinish(t)
          /\ UNCHANGED favStore
  /\ UNCHANGED <<screenVars, searchVars, scan>>
  /\ UNCHANGED <<taps, liked, favoritesCount, pdProduct, pdIsFavorite,
                 fsFavorites, rt>>

\* FavorisScreen.removeFavorite(id), up to its setItem
atFsRemoveFavorite(id, ok) ==
  /\ HasFav(fsFavorites, id)
  /\ FavTap
  /\ FavCanStart
  /\ LET updated == FilterFav(fsFavorites, id) IN
     /\ favStore' = setItem(favStore, updated, ok)
     /\ favTasks' = FavStart(FTask("fsRemove", "written", id, updated,
                                   FALSE, ok))
  /\ UNCHANGED <<screenVars, searchVars, scan>>
  /\ UNCHANGED <<liked, favoritesCount, pdProduct, pdIsFavorite,
                 fsFavorites, rt>>

\* a fresh install: nothing stored yet, Discover displayed
InitAt ==
  /\ InitScreens
  /\ SearchIdle
  /\ scan = NoScan
  /\ screen = "discover" /\ cache = NoCache
  /\ InitFavIdle

NextAt ==
  \/ Tick
  \/ \E p \in Ids, ok \in BOOLEAN : toggleFavorite(p, ok)
  \/ \E t \in FavTasks, ok \in BOOLEAN : atToggleFavoriteRead(t, ok)
  \/ \E t \in FavTasks, ok \in BOOLEAN : atToggleFavoriteWrite(t, ok)
  \/ \E t \in FavTasks, ok \in BOOLEAN : toggleFavoriteDone(t, ok)
  \/ \E t \in FavTasks : setFavoritesCount(t)
  \/ \E p \in Ids, ok \in BOOLEAN : openProduct(p, ok)
  \/ \E t \in FavTasks : atCheckIfFavorite(t)
  \/ \E ok \in BOOLEAN : pdToggleFavorite(ok)
  \/ \E t \in FavTasks, ok \in BOOLEAN : atPdToggleFavoriteWrite(t, ok)
  \/ \E t \in FavTasks : pdToggleFavoriteDone(t)
  \/ \E ok \in BOOLEAN : loadFavorites(ok)
  \/ \E id \in Ids, ok \in BOOLEAN : atFsRemoveFavorite(id, ok)
  \/ \E t \in FavTasks : setFavorites(t)

SpecAt == InitAt /\ [][NextAt]_vars

\* ------------------------------------------------------------------- C21
\* addedAt never increases along the list
NewestFirst(favs) ==
  \A i, j \in DOMAIN favs : i < j => favs[i].addedAt >= favs[j].addedAt

\* the positions of `old` that a removal of `id` keeps
Kept(old, id) == {k \in DOMAIN old : old[k].id # id}

\* `new` is `old` without the entries of `id`, the others in their order
OthersInOrder(old, new, id) ==
  /\ Len(new) = Cardinality(Kept(old, id))
  /\ \A k \in DOMAIN new :
       \E j \in Kept(old, id) :
         /\ Cardinality({i \in Kept(old, id) : i <= j}) = k
         /\ new[k] = old[j]

\* an accepted write of addFavorite for a product absent from the list read
AddsAbsent(t) ==
  /\ t.proc = "dToggle" /\ t.pc = "update"
  /\ ~t.isFav /\ ~HasFav(t.favs, t.id)
  /\ favTasks' = FavReplace(t, [t EXCEPT !.pc = "written", !.ok = TRUE])

\* an accepted write of removeFavorite
Removes(t) ==
  /\ t.proc = "dToggle" /\ t.pc = "update"
  /\ t.isFav
  /\ favTasks' = FavReplace(t, [t EXCEPT !.pc = "written", !.ok = TRUE])

\* C21: the stored list is ordered most recently added first.  In every
\* reachable state addedAt never increases along the list; an accepted
\* addFavorite of a product absent from the list it read stores the new
\* snapshot at index 0 followed by that list unchanged; an accepted
\* removeFavorite stores the list it read without the entries of the product,
\* the others in their order; an accepted removal on FavorisScreen does the
\* same with the displayed list.
C21_NewestFirst ==
  /\ [](NewestFirst(favStore))
  /\ [][\A t \in FavTasks :
          AddsAbsent(t) =>
            /\ favStore' # <<>>
            /\ Head(favStore').id = t.id
            /\ Head(favStore').addedAt = now
            /\ Tail(favStore') = t.favs]_vars
  /\ [][\A t \in FavTasks :
          Removes(t) => OthersInOrder(t.favs, favStore', t.id)]_vars
  /\ [][\A id \in Ids :
          (/\ HasFav(fsFavorites, id)
           /\ \E u \in BagToSet(favTasks') :
                /\ u.proc = "fsRemove" /\ u.id = id /\ u.ok
                /\ favTasks' = FavStart(u))
          => OthersInOrder(fsFavorites, favStore', id)]_vars

\* addFavorite has just stored a snapshot in front of an older one
C21_TwoTimesStored ==
  /\ Len(favStore) = 2
  /\ favStore[1].addedAt > favStore[2].addedAt
  /\ \E t \in FavTasks :
       /\ t.proc = "dToggle" /\ t.pc = "written" /\ t.ok /\ ~t.isFav
       /\ favStore[1].id = t.id

\* ------------------------------------------------------------------- C22
\* the location step of a loader has gone on to its page-1 fetch
FetchFollows ==
  \E t \in Tasks :
    /\ t.task = "loc"
    /\ \E u \in BagToSet(inflight') :
         /\ u.task = "fetch" /\ u.page = 1
         /\ inflight' = Replace(t, u)

\* C22: on Discover and AllShops, when the foreground location permission is
\* not granted the loader records the default coordinates (-11.664, 27.479)
\* as the user location and goes on to its network fetch with them; when it
\* is granted (and the position obtained) the device coordinates are recorded
\* and used.
C22_DefaultCoordinates ==
  [][(screen \in {"discover", "shops"} /\ last'.act = "location")
       => /\ last'.out = "denied"
             => /\ userLocation' = "default"
                /\ last'.loc = "default"
                /\ FetchFollows
          /\ last'.out = "granted"
             => /\ userLocation' = "device"
                /\ last'.loc = "device"
                /\ FetchFollows]_vars

\* AllShops has been refused the permission and its fetch is in flight
C22_DeniedAndFetching ==
  /\ screen = "shops"
  /\ last.act = "location" /\ last.out = "denied"
  /\ userLocation = "default"
  /\ \E t \in Tasks : t.task = "fetch" /\ t.page = 1

\* ------------------------------------------------------------------- C23
\* the list shown under a blank query: the first page * ITEMS_PER_PAGE items
PagedView ==
  /\ feed = Slice(all, page * ITEMS_PER_PAGE)
  /\ hasMore = (page * ITEMS_PER_PAGE < Len(all))

\* the list shown under a non-blank query: every loaded item that matches
FilteredView ==
  /\ Range(feed) = {i \in Range(all) : Matches(i)}
  /\ \A i, j \in DOMAIN feed :
       i < j => \E k, l \in DOMAIN all : k < l /\ all[k] = feed[i]
                                               /\ all[l] = feed[j]
  /\ ~hasMore

\* C23: on PromoProducts and AllShops, in every state between two handler
\* steps: with a blank query the displayed list is the first
\* page * ITEMS_PER_PAGE items of the full list and hasMore is
\* (page * ITEMS_PER_PAGE < length); with a non-blank query the displayed
\* list is the loaded items that match it and hasMore is false, so that
\* loadMore does nothing; clearing the query restores page 1 and the
\* first-page slice.
C23_PagedOrFiltered ==
  /\ [](screen \in {"promo", "shops"}
          => IF searchQuery = "" THEN PagedView ELSE FilteredView)
  /\ [][(screen \in {"promo", "shops"} /\ searchQuery # "")
          => last'.act # "loadMore"]_vars
  /\ [][(screen \in {"promo", "shops"} /\ searchQuery # ""
           /\ searchQuery' = "")
          => /\ page' = 1
             /\ feed' = Slice(all', ITEMS_PER_PAGE)
             /\ hasMore' = (ITEMS_PER_PAGE < Len(all'))]_vars

\* AllShops shows the one match of a two-item list, after a loadMore had
\* moved to page 2
C23_FilteredAfterLoadMore ==
  /\ screen = "shops"
  /\ searchQuery # ""
  /\ Len(all) = 2 /\ Len(feed) = 1
  /\ page = 2

\* ------------------------------------------------------------------- C24
\* the success response of the load-more `t` is applied to the feed, and it
\* is the last request to complete
LoadMoreAppliedLast(t) ==
  /\ screen = "discover"
  /\ t.task = "fetch" /\ t.kind = "more"
  /\ inflight' = Finish(t) /\ inflight' = EmptyBag
  /\ last'.act = "response" /\ last'.kind = "more" /\ last'.out = "ok"

\* C24: on Discover, when a load-more overlaps a pull-to-refresh or a
\* category change, then once all requests have completed the feed holds
\* only pages 1..page of the current filter, no page skipped: the load-more
\* response that completes last is appended only if it is the page after
\* the feed's last page, fetched for the category that is selected now.
C24_FeedOfCurrentFilter ==
  [][\A t \in Tasks :
       LoadMoreAppliedLast(t)
         => /\ t.cat = selectedCategory
            /\ t.page = page + 1]_vars

\* ------------------------------------------------------------------- C25
\* the success response of a pull-to-refresh has just been applied
RefreshApplied ==
  last.act = "response" /\ last.kind = "refresh" /\ last.out = "ok"

\* this step handles the response of the mount's page-1 request, which was
\* issued before any pull-to-refresh could be
MountResponseHandled == last'.act = "response" /\ last'.kind = "init"

\* C25: when two page-1 loads of one loader overlap (the mount's request and
\* a pull-to-refresh, on PromoProducts, AllShops and Discover), the list and
\* the cache envelope end with the result of the request issued last,
\* whatever the order of the responses: once the refresh's result has been
\* applied, the response of the older mount request changes neither the
\* full list, nor the displayed list, nor the envelope.
C25_LastIssuedWins ==
  [][(screen \in CacheBacked /\ RefreshApplied /\ MountResponseHandled)
       => /\ all' = all
          /\ feed' = feed
          /\ cache' = cache]_vars

\* =========================================== RechercheAvancee, pagination
\* (src/app/Favoris.tsx 1615-1694, 1859-1863, 2396-2437)
\* One query is searched and paged through.  A result page is represented
\* by its number, so that results.products tells which pages the list holds.

\* the text in the search bar
PagedQuery == <<"a">>

\* total_pages of the backend's answer
TotalPages == 1..MaxPage

\* what fetchNearbyShops leaves in `shops`: some shops, none, or the old
\* value (no location / includeShops off / a failed request)
ShopsOutcomes == {"some", "none", "skip"}

\* renderMainList shows the FlatList (with onEndReached and the refresh
\* control), not the "Recherche en cours" view or the error view
ResultsVisible ==
  /\ ~(isSearching /\ results.products = <<>> /\ ~results.shops)
  /\ ~searchError

\* a handleSearch suspended at an await, with the page it asks for
PagedTask(reset, currentPage) ==
  [STask("search", "shops", PagedQuery, searchHistory, NoHistory, reset, TRUE)
     EXCEPT !.page = currentPage]

\* handleSearch(searchQuery, true): submit, retry button or pull-to-refresh;
\* up to `await fetchNearbyShops(query)`
submitSearch ==
  /\ SearchTap
  /\ SearchCanStart
  /\ isSearching' = TRUE
  /\ searchError' = FALSE
  /\ results' = NoResults
  /\ searchTasks' = SearchStart(PagedTask(TRUE, 1))
  /\ lastSave' = NoSave
  /\ UNCHANGED <<searchHistory, historyStore, searchLoading>>
  /\ UNCHANGED <<screenVars, favVars, scan>>

\* handleLoadMore -> handleSearch(searchQuery, false): the list-end event;
\* currentPage is the `page` of the render
handleLoadMore ==
  /\ ResultsVisible
  /\ SearchTap
  /\ SearchCanStart
  /\ ~searchLoading /\ results.hasMore /\ Len(PagedQuery) > 0
  /\ searchLoading' = TRUE
  /\ searchTasks' = SearchStart(PagedTask(FALSE, results.page))
  /\ lastSave' = NoSave
  /\ UNCHANGED <<searchHistory, historyStore, isSearching, searchError,
                 results>>
  /\ UNCHANGED <<screenVars, favVars, scan>>

\* handleSearch after fetchNearbyShops, up to the fetch of the result page
fetchNearbyShopsDone(t, o) ==
  /\ t.proc = "search" /\ t.pc = "shops"
  /\ results' = [results EXCEPT !.shops = IF o = "skip" THEN @
                                          ELSE o = "some"]
  /\ searchTasks' = SearchReplace(t, [t EXCEPT !.pc = "fetch"])
  /\ lastSave' = NoSave
  /\ UNCHANGED <<searchHistory, historyStore, isSearching, searchLoading,
                 searchError, taps>>
  /\ UNCHANGED <<screenVars, favVars, scan>>

\* handleSearch from the answer of the network on: a success body (which
\* echoes the page asked for) replaces or extends the list, sets hasMore and
\* page, and runs saveSearchHistory up to its setItem; anything else goes
\* through catch / finally
pagedResponse(t, o, total_pages, ok) ==
  /\ t.proc = "search" /\ t.pc = "fetch"
  /\ IF o = "ok"
     THEN LET updatedHistory == saveSearchHistory(t.history, t.query)
              currentPage == t.page IN
          /\ results' = [results EXCEPT
                           !.products = IF t.reset THEN <<currentPage>>
                                        ELSE @ \o <<currentPage>>,
                           !.hasMore = currentPage < total_pages,
                           !.page = currentPage + 1]
          /\ searchHistory' = updatedHistory
          /\ historyStore' = IF ok THEN Stored(updatedHistory) ELSE historyStore
          /\ lastSave' = Saved(t.query, searchHistory, ok)
          /\ searchTasks' = SearchReplace(t, [t EXCEPT !.pc = "saved"])
          /\ UNCHANGED <<isSearching, searchLoading, searchError>>
     ELSE /\ ok /\ total_pages = 1
          /\ searchError' = IF o = "exception" THEN TRUE ELSE searchError
          /\ isSearching' = FALSE
          /\ searchLoading' = FALSE
          /\ searchTasks' = SearchFinish(t)
          /\ lastSave' = NoSave
          /\ UNCHANGED <<searchHistory, historyStore, results>>
  /\ UNCHANGED taps
  /\ UNCHANGED <<screenVars, favVars, scan>>

NextPages ==
  \/ \E t \in SearchTasks, ok \in BOOLEAN : loadSearchHistory(t, ok)
  \/ submitSearch
  \/ handleLoadMore
  \/ \E t \in SearchTasks, o \in ShopsOutcomes : fetchNearbyShopsDone(t, o)
  \/ \E t \in SearchTasks, o \in SearchOutcomes, tp \in TotalPages,
        ok \in BOOLEAN : pagedResponse(t, o, tp, ok)
  \/ \E t \in SearchTasks : searchDone(t)

SpecPages == InitSearch /\ [][NextPages]_vars

\* ------------------------------------------------------------------- C26
\* this step is a list-end event that starts the load-more `u`
LoadMoreStarts(u) ==
  /\ u.proc = "search" /\ u.pc = "shops" /\ ~u.reset
  /\ searchTasks' = SearchStart(u)

\* C26: for one search query the pages handled by handleSearch are
\* consecutive: a reset asks for page 1 and each load-more for the page after
\* the last one appended, so that no page is requested or appended twice,
\* also when the list-end event fires while the reset search is still in
\* flight: a load-more never asks for a page that a search in flight is
\* asking for.
C26_PagesConsecutive ==
  [][\A u \in BagToSet(searchTasks') :
       LoadMoreStarts(u)
         => \A t \in SearchTasks : t.proc = "search" => t.page # u.page]_vars

\* ------------------------------------------------------------------- C27
\* two removals of FavorisScreen, for different items, have both written
\* and neither has reached its setFavorites yet
TwoRemovalsWritten(t, u) ==
  /\ t.proc = "fsRemove" /\ u.proc = "fsRemove"
  /\ t.id # u.id
  /\ t.ok /\ u.ok

\* C27: on FavorisScreen, two different favorites removed in quick
\* succession (the second tap before the first removal's state update is
\* rendered) are both removed from the persisted list: once both setItem
\* calls have been accepted the persisted list holds neither item.
C27_BothRemoved ==
  \A t, u \in FavTasks :
    TwoRemovalsWritten(t, u)
      => ~Contains(favStore, t.id) /\ ~Contains(favStore, u.id)

\* ------------------------------------------------------------------- C28
\* this step sends a products request of the given kind from Discover
Sends(kind) ==
  screen = "discover" /\ last'.act = "request" /\ last'.kind = kind

\* C28: on Discover, a tap on the selected category deselects it and
\* requests page 1 without a category parameter; a tap on another category
\* requests page 1 with that category; every load-more request carries the
\* category selected when it is sent.
C28_CategoryOfRequests ==
  [][/\ Sends("filterSame")
          => /\ selectedCategory' = NoCategory
             /\ last'.page = 1
             /\ last'.cat = NoCategory
     /\ Sends("filterOther")
          => /\ selectedCategory' \in Categories
             /\ last'.page = 1
             /\ last'.cat = selectedCategory'
     /\ Sends("more")
          => last'.cat = selectedCategory]_vars

\* ============================== Discover: nearby shops and trending products
\* (src/app/Favoris.tsx 3347-3429, 3431-3442, 3446-3490, 3493-3522, 3573-3586)
\* The three requests of a load (products, nearby shops, trending products)
\* are in flight together; the cache payload is { products, shops, trending }.

MaxSections == 2

\* the lists a shops or trending response can carry, 0 for the empty one
SectionLists == 0..MaxSections

\* CacheData without its timestamp
CacheData(products, shops, trending) ==
  [products |-> products, shops |-> shops, trending |-> trending]

\* `shops` and `trendingProducts` as fetchProducts sees them: the mount
\* effect and requestLocationAndFetchData run in the first render, whose
\* lists are the initial []; onRefresh runs in the render that memoized it
ClosureShops(kind) == IF kind = "refresh" THEN sections.memoShops ELSE 0
ClosureTrending(kind) == IF kind = "refresh" THEN sections.memoTrending ELSE 0

\* Promise.all([fetchProducts(1, true, true), fetchNearbyShops(lat, lng),
\*              fetchTrendingProducts()])
PromiseAll(kind, cat) ==
  SetToBag({ForCategory(Task("fetch", kind, 1, FALSE), cat),
            Task("shops", kind, 0, FALSE),
            Task("trending", kind, 0, FALSE)})

\* the request `t` is the last of its Promise.all to settle
RoundOver(t) == \A u \in BagToSet(Finish(t)) : u.kind # t.kind

\* what the caller of the Promise.all does once it has settled: the finally
\* of requestLocationAndFetchData, the end of onRefresh
AfterPromiseAll(t) ==
  /\ loading' = IF RoundOver(t) /\ t.kind \in {"init", "refreshLoc"}
                THEN FALSE ELSE loading
  /\ refreshing' = IF RoundOver(t) /\ t.kind \in {"refresh", "refreshLoc"}
                   THEN FALSE ELSE refreshing
  /\ pc' = IF RoundOver(t) /\ t.kind = "init" THEN "done" ELSE pc

\* history: the request `name` of a pull-to-refresh has succeeded
Succeeded(t, name, ok) ==
  IF ok /\ t.kind \in {"refresh", "refreshLoc"}
  THEN sections.done \cup {name} ELSE sections.done

\* loadInitialData, after `await loadCache()`, up to the first await of
\* requestLocationAndFetchData
sectionsLoadInitialData ==
  /\ screen = "discover"
  /\ MountPending
  /\ LET cached == loadCache(cache, now) IN
     /\ all' = IF cached.hit THEN cached.data.products ELSE all
     /\ feed' = IF cached.hit
                THEN Slice(cached.data.products, ITEMS_PER_PAGE) ELSE feed
     /\ sections' = IF cached.hit
                    THEN [sections EXCEPT !.shops = cached.data.shops,
                                          !.trending = cached.data.trending]
                    ELSE sections
     /\ isCacheLoaded' = (cached.hit \/ isCacheLoaded)
     /\ loading' = IF ~FirstRenderIsCacheLoaded THEN TRUE
                   ELSE IF cached.hit THEN FALSE ELSE loading
     /\ last' = Event("loadCache", "init",
                      IF cached.hit THEN "hit" ELSE "miss")
  /\ inflight' = Start(Task("loc", "init", 0, FALSE))
  /\ pc' = "running"
  /\ UNCHANGED <<favVars, searchVars, scan>>
  /\ UNCHANGED <<taps, screen, now, cache, page, hasMore, totalPages,
                 loadingMore, refreshing, selectedCategory, refreshCat,
                 userLocation, searchQuery, boutique, mountIssued>>

\* requestLocationAndFetchData, after the location awaits, up to the three
\* requests; setUserLocation makes the next render memoize onRefresh anew
sectionsLocation(t, o) ==
  /\ screen = "discover"
  /\ t.task = "loc"
  /\ IF o = "error"
     THEN /\ loading' = FALSE
          /\ refreshing' = IF t.kind = "refreshLoc" THEN FALSE
                           ELSE refreshing
          /\ inflight' = Finish(t)
          /\ pc' = IF t.kind = "init" THEN "done" ELSE pc
          /\ UNCHANGED <<userLocation, refreshCat, mountIssued, sections>>
     ELSE /\ userLocation' = location(o)
          /\ refreshCat' = selectedCategory
          /\ sections' = [sections EXCEPT !.memoShops = sections.shops,
                                          !.memoTrending = sections.trending]
          /\ inflight' = Finish(t) (+) PromiseAll(t.kind, NoCategory)
          /\ mountIssued' = (mountIssued \/ t.kind = "init")
          /\ UNCHANGED <<loading, refreshing, pc>>
  /\ last' = Event("location", t.kind, o)
  /\ UNCHANGED <<favVars, searchVars, scan>>
  /\ UNCHANGED <<taps, screen, now, cache, all, feed, page, hasMore,
                 totalPages, loadingMore, selectedCategory, isCacheLoaded,
                 searchQuery, boutique>>

\* fetchProducts(1, true, true), from the response on
sectionsFetchProducts(t, r) ==
  /\ screen = "discover"
  /\ t.task = "fetch"
  /\ \E products \in (IF r.out = "ok" THEN shuffleArray(r.products)
                       ELSE {r.products}) :
       /\ IF r.out = "ok"
          THEN /\ all' = products
               /\ feed' = Slice(products, ITEMS_PER_PAGE)
               /\ cache' = saveCache(CacheData(products,
                                               ClosureShops(t.kind),
                                               ClosureTrending(t.kind)), now)
               /\ page' = 1
               /\ hasMore' = hasMoreAfter(1, r.totalPages)
          ELSE UNCHANGED <<all, feed, cache, page, hasMore>>
       /\ last' = Response(t.kind, r, products, 1)
  /\ sections' = [sections EXCEPT
                    !.done = Succeeded(t, "products", r.out = "ok")]
  /\ AfterPromiseAll(t)
  /\ inflight' = Finish(t)
  /\ UNCHANGED <<favVars, searchVars, scan>>
  /\ UNCHANGED <<taps, screen, now, totalPages, loadingMore,
                 selectedCategory, refreshCat, isCacheLoaded, userLocation,
                 searchQuery, boutique, mountIssued>>

\* fetchNearbyShops, from the response on: setShops(data.shops || [])
fetchNearbyShops(t, o, shops) ==
  /\ screen = "discover"
  /\ t.task = "shops"
  /\ sections' = [sections EXCEPT
                    !.shops = IF o = "ok" THEN shops ELSE @,
                    !.done = Succeeded(t, "shops", o = "ok")]
  /\ AfterPromiseAll(t)
  /\ inflight' = Finish(t)
  /\ last' = Event("shops", t.kind, o)
  /\ UNCHANGED <<favVars, searchVars, scan>>
  /\ UNCHANGED <<taps, screen, now, cache, all, feed, page, hasMore,
                 totalPages, loadingMore, selectedCategory, refreshCat,
                 isCacheLoaded, userLocation, searchQuery, boutique,
                 mountIssued>>

\* fetchTrendingProducts, from the response on: setTrendingProducts(trending)
fetchTrendingProducts(t, o, trending) ==
  /\ screen = "discover"
  /\ t.task = "trending"
  /\ sections' = [sections EXCEPT
                    !.trending = IF o = "ok" THEN trending ELSE @,
                    !.done = Succeeded(t, "trending", o = "ok")]
  /\ AfterPromiseAll(t)
  /\ inflight' = Finish(t)
  /\ last' = Event("trending", t.kind, o)
  /\ UNCHANGED <<favVars, searchVars, scan>>
  /\ UNCHANGED <<taps, screen, now, cache, all, feed, page, hasMore,
                 totalPages, loadingMore, selectedCategory, refreshCat,
                 isCacheLoaded, userLocation, searchQuery, boutique,
                 mountIssued>>

\* onRefresh, pulled while no load is in flight
sectionsOnRefresh ==
  /\ screen = "discover"
  /\ ListVisible
  /\ Tap
  /\ inflight = EmptyBag
  /\ refreshing' = TRUE
  /\ selectedCategory' = NoCategory
  /\ sections' = [sections EXCEPT !.round = "refresh", !.done = {}]
  /\ IF userLocation # "none"
     THEN /\ inflight' = PromiseAll("refresh", refreshCat)
          /\ last' = Request("refresh", 1, refreshCat, userLocation)
          /\ UNCHANGED loading
     ELSE /\ loading' = IF ~FirstRenderIsCacheLoaded THEN TRUE ELSE loading
          /\ inflight' = Start(Task("loc", "refreshLoc", 0, FALSE))
          /\ last' = Event("locate", "refreshLoc", "none")
  /\ UNCHANGED <<favVars, searchVars, scan>>
  /\ UNCHANGED <<screen, now, cache, all, feed, page, hasMore, totalPages,
                 loadingMore, refreshCat, isCacheLoaded, userLocation,
                 searchQuery, boutique, pc, mountIssued>>

\* Discover opened on a first launch or with a fresh envelope
InitSections ==
  /\ screen = "discover"
  /\ now = MaxAge * MINUTE
  /\ cache \in {NoCache,
                Envelope(now - MinAge * MINUTE, CacheData(<<1>>, 1, 1))}
  /\ all = <<>>
  /\ feed = <<>>
  /\ page = 1
  /\ hasMore = TRUE
  /\ totalPages = 1
  /\ loading = TRUE
  /\ loadingMore = FALSE
  /\ refreshing = FALSE
  /\ selectedCategory = NoCategory
  /\ refreshCat = NoCategory
  /\ isCacheLoaded = FALSE
  /\ userLocation = "none"
  /\ searchQuery = ""
  /\ boutique = FALSE
  /\ pc = "mount"
  /\ mountIssued = FALSE
  /\ inflight = EmptyBag
  /\ taps = 0
  /\ last = NoEvent
  /\ sections = NoSections
  /\ InitFavIdle
  /\ SearchIdle
  /\ scan = NoScan

NextSections ==
  \/ sectionsLoadInitialData
  \/ \E t \in Tasks, o \in LocationOutcomes : sectionsLocation(t, o)
  \/ \E t \in Tasks, r \in Responses : sectionsFetchProducts(t, r)
  \/ \E t \in Tasks, o \in {"ok"} \cup Failures, shops \in SectionLists :
       fetchNearbyShops(t, o, shops)
  \/ \E t \in Tasks, o \in {"ok"} \cup Failures, trending \in SectionLists :
       fetchTrendingProducts(t, o, trending)
  \/ sectionsOnRefresh

SpecSections == InitSections /\ [][NextSections]_vars

\* ------------------------------------------------------------------- C29
\* a pull-to-refresh has completed and its three requests have succeeded
RefreshSucceeded ==
  /\ screen = "discover"
  /\ sections.round = "refresh"
  /\ inflight = EmptyBag
  /\ sections.done = {"products", "shops", "trending"}

\* C29: after a Discover refresh in which the products, nearby-shops and
\* trending requests all succeed, the envelope persisted under
\* '@shopnet_discover_cache' holds the shops list and the trending list
\* just fetched and displayed.
C29_EnvelopeHoldsSections ==
  RefreshSucceeded
    => /\ cache.kind = "envelope"
       /\ cache.data.shops = sections.shops
       /\ cache.data.trending = sections.trending

\* ------------------------------------------------------------------- C30
\* a heart tap of ProductDetail ends with its write accepted; it had read
\* the list that Discover's count and isLiked flags agreed with, and no
\* other favorites operation is left
ProductDetailToggleEnds(t) ==
  /\ t.proc = "pdToggle" /\ t.pc = "written" /\ t.ok
  /\ favoritesCount = Len(t.favs)
  /\ liked = Range(t.favs)
  /\ favTasks' = EmptyBag

\* C30: on Discover, whenever no favorites operation is in flight, the
\* displayed favoritesCount is the number of persisted entries and the
\* isLiked flag of each displayed product is its membership in the persisted
\* list, also after the favorites were changed from ProductDetail (or
\* Favoris) and the user came back to Discover.
C30_DiscoverFollowsLedger ==
  [][\A t \in FavTasks :
       ProductDetailToggleEnds(t)
         => /\ favoritesCount' = Len(favStore')
            /\ liked' = Range(favStore')]_vars
====
